---- MODULE Spec2Model ----
(***************************************************************************)
(* Dispatch and dependency-resolution engine of appsscript-boot.           *)
(*                                                                         *)
(* Strings that the code splits, slices or decodes (paths, templates,      *)
(* A1 ranges) are sequences of one-character strings.  Names that the code *)
(* only compares (class names, method names, verbs) are TLA+ strings.      *)
(* JavaScript values that reach a handler or a response are tagged         *)
(* records, so that null, undefined, text and objects stay distinct.       *)
(***************************************************************************)
EXTENDS Integers, Sequences, FiniteSets, TLC

\* ------------------------------------------------------------------------
\* Bounds of the model
\* ------------------------------------------------------------------------

\* number of entry-function invocations in one process lifetime
MaxOps == 2

\* depth of nested resolve frames the engine's call stack holds
MaxStack == 4

\* ------------------------------------------------------------------------
\* JavaScript values
\* ------------------------------------------------------------------------

Null == [t |-> "null"]

Undefined == [t |-> "undefined"]

Text(s) == [t |-> "string", s |-> s]

Obj(f) == [t |-> "object", f |-> f]

Num(n) == [t |-> "number", n |-> n]

\* values of the RequestMethod enum
GET == <<"g","e","t">>

POST == <<"p","o","s","t">>

PUT == <<"p","u","t">>

DELETE == <<"d","e","l","e","t","e">>

PATCH == <<"p","a","t","c","h">>

OPTIONS == <<"o","p","t","i","o","n","s">>

HEAD == <<"h","e","a","d">>

RequestMethod == {GET, POST, PUT, DELETE, PATCH, OPTIONS, HEAD}

\* ------------------------------------------------------------------------
\* String helpers (String.prototype.split / filter(Boolean) / startsWith)
\* ------------------------------------------------------------------------

RECURSIVE SplitAcc(_, _, _, _)
SplitAcc(s, i, cur, acc) ==
  IF i > Len(s) THEN Append(acc, cur)
  ELSE IF s[i] = "/" THEN SplitAcc(s, i + 1, <<>>, Append(acc, cur))
  ELSE SplitAcc(s, i + 1, Append(cur, s[i]), acc)

\* s.split("/")
Split(s) == SplitAcc(s, 1, <<>>, <<>>)

\* parts.filter(Boolean): the empty string is the only falsy string
FilterBoolean(parts) == SelectSeq(parts, LAMBDA p : p # <<>>)

StartsWith(s, pre) ==
  /\ Len(s) >= Len(pre)
  /\ SubSeq(s, 1, Len(pre)) = pre

EndsWith(s, suf) ==
  /\ Len(s) >= Len(suf)
  /\ SubSeq(s, Len(s) - Len(suf) + 1, Len(s)) = suf

RECURSIVE JoinSlash(_)
JoinSlash(parts) ==
  IF parts = <<>> THEN <<>>
  ELSE <<"/">> \o Head(parts) \o JoinSlash(Tail(parts))

\* normalize() of appsscript-utils as the engine relies on it: an absolute
\* path with single slashes and no trailing slash, "/" for the root.
normalize(s) ==
  LET parts == FilterBoolean(Split(s))
  IN IF parts = <<>> THEN <<"/">> ELSE JoinSlash(parts)

\* ------------------------------------------------------------------------
\* decodeURI
\* ------------------------------------------------------------------------

HexDigits == <<"0","1","2","3","4","5","6","7","8","9","A","B","C","D","E","F">>

IsHex(c) == \E i \in 1..16 : HexDigits[i] = c \/ (i > 10 /\ c = <<"a","b","c","d","e","f">>[i - 10])

HexVal(c) ==
  CHOOSE v \in 0..15 :
    \/ HexDigits[v + 1] = c
    \/ (v >= 10 /\ <<"a","b","c","d","e","f">>[v - 9] = c)

\* printable ASCII, code 32 to 126
Ascii ==
  <<" ","!","dquote","#","$","%","&","'","(",")","*","+",",","-",".","/",
    "0","1","2","3","4","5","6","7","8","9",":",";","<","=",">","?",
    "@","A","B","C","D","E","F","G","H","I","J","K","L","M","N","O",
    "P","Q","R","S","T","U","V","W","X","Y","Z","[","bslash","]","^","_",
    "btick","a","b","c","d","e","f","g","h","i","j","k","l","m","n","o",
    "p","q","r","s","t","u","v","w","x","y","z","{","|","}","~">>

\* the characters decodeURI leaves escaped: ; / ? : @ & = + $ , #
UriReserved == {";", "/", "?", ":", "@", "&", "=", "+", "$", ",", "#"}

\* decodeURI(s): [ok |-> TRUE, s |-> decoded] or [ok |-> FALSE] for URIError
RECURSIVE DecodeAcc(_, _, _)
DecodeAcc(s, i, acc) ==
  IF i > Len(s) THEN [ok |-> TRUE, s |-> acc]
  ELSE IF s[i] # "%" THEN DecodeAcc(s, i + 1, Append(acc, s[i]))
  ELSE IF i + 2 > Len(s) \/ ~IsHex(s[i + 1]) \/ ~IsHex(s[i + 2])
    THEN [ok |-> FALSE, s |-> <<>>]
  ELSE LET code == 16 * HexVal(s[i + 1]) + HexVal(s[i + 2])
       IN IF code >= 128 \/ code = 127
            THEN [ok |-> FALSE, s |-> <<>>]
          ELSE IF code < 32
            THEN DecodeAcc(s, i + 3, Append(acc, "ctl"))
          ELSE IF Ascii[code - 31] \in UriReserved
            THEN DecodeAcc(s, i + 3, acc \o SubSeq(s, i, i + 2))
          ELSE DecodeAcc(s, i + 3, Append(acc, Ascii[code - 31]))

decodeURI(s) == DecodeAcc(s, 1, <<>>)

\* ------------------------------------------------------------------------
\* Path matcher
\* ------------------------------------------------------------------------

IsWildcard(part) == StartsWith(part, <<"{">>) /\ EndsWith(part, <<"}">>)

\* a match that lets the path run on after the template's last segment
pathMatchPrefix(template, actual) ==
  LET tplParts == FilterBoolean(Split(template))
      actParts == FilterBoolean(Split(actual))
  IN IF Len(tplParts) > Len(actParts) THEN FALSE
     ELSE \A i \in 1..Len(tplParts) :
            IF IsWildcard(tplParts[i]) THEN TRUE
            ELSE tplParts[i] = actParts[i]

pathMatch(template, actual) ==
  LET tplParts == FilterBoolean(Split(template))
      actParts == FilterBoolean(Split(actual))
  IN IF Len(tplParts) # Len(actParts) THEN FALSE
     ELSE \A i \in 1..Len(tplParts) :
            IF IsWildcard(tplParts[i]) THEN TRUE
            ELSE tplParts[i] = actParts[i]

\* { ...existing, [k]: v } on an object kept as a sequence of <<key, value>>
SetProp(rec, k, v) ==
  IF \E i \in 1..Len(rec) : rec[i][1] = k
    THEN [i \in 1..Len(rec) |-> IF rec[i][1] = k THEN <<k, v>> ELSE rec[i]]
    ELSE Append(rec, <<k, v>>)

RECURSIVE ExtractAcc(_, _, _, _)
ExtractAcc(tplParts, actParts, i, params) ==
  IF i > Len(tplParts) THEN params
  ELSE IF IsWildcard(tplParts[i])
    THEN ExtractAcc(tplParts, actParts, i + 1,
           SetProp(params, SubSeq(tplParts[i], 2, Len(tplParts[i]) - 1),
                   IF i <= Len(actParts) THEN Text(actParts[i]) ELSE Undefined))
  ELSE ExtractAcc(tplParts, actParts, i + 1, params)

\* an extraction that reads every value from the first path segment
extractPathParamsFirst(template, actual) ==
  LET actParts == FilterBoolean(Split(actual))
  IN Obj(ExtractAcc(FilterBoolean(Split(template)),
                    [i \in 1..Len(actParts) |-> actParts[1]], 1, <<>>))

extractPathParams(template, actual) ==
  Obj(ExtractAcc(FilterBoolean(Split(template)), FilterBoolean(Split(actual)), 1, <<>>))

\* ------------------------------------------------------------------------
\* Metadata written by the decorators
\* ------------------------------------------------------------------------

\* an object literal whose key order matters: a sequence of <<key, value>>
HasKey(rec, k) == \E i \in 1..Len(rec) : rec[i][1] = k

\* Object.values(rec)
ObjectValues(rec) == [i \in 1..Len(rec) |-> rec[i][2]]

NoKey == <<>>

assignMetadata(existing, index, type, key) ==
  SetProp(existing, <<type, index>>, [type |-> type, key |-> key, index |-> index, token |-> ""])

assignInjectMetadata(existing, index, token) ==
  SetProp(existing, <<"inject", index>>, [type |-> "inject", key |-> NoKey, index |-> index, token |-> token])

\* createHttpDecorator(method)(path): the empty sequence stands for an
\* undefined or empty path argument
createHttpDecoratorGet(method, path) ==
  [verb |-> GET, path |-> IF path = <<>> THEN <<"/">> ELSE path]

createHttpDecorator(method, path) ==
  [verb |-> method, path |-> IF path = <<>> THEN <<"/">> ELSE path]

NoHttp == [verb |-> <<>>, path |-> <<>>]

\* a filter value of AppsScriptOptions
NoFilter == [k |-> "none", v |-> <<>>]

Lit(s) == [k |-> "str", v |-> s]

List(ss) == [k |-> "list", v |-> ss]

\* the regular expression /^prefix/
RegExpPrefix(prefix) == [k |-> "re", v |-> prefix]

EmptyOptions == [range |-> NoFilter, formId |-> NoFilter, changeType |-> NoFilter]

createMethodDecorator(eventType, options) ==
  [event |-> eventType, hasOptions |-> TRUE, options |-> options]

NoEvent == [event |-> "", hasOptions |-> FALSE, options |-> EmptyOptions]

\* args.flat(Infinity).filter(isString)
RECURSIVE FlattenStrings(_)
FlattenStrings(args) ==
  IF args = <<>> THEN <<>>
  ELSE LET a == Head(args)
           mine == IF a.k = "str" THEN <<a.v>>
                   ELSE IF a.k = "list" THEN a.v
                   ELSE <<>>
       IN mine \o FlattenStrings(Tail(args))

EditOptions(args) ==
  IF Len(args) = 0 THEN EmptyOptions
  ELSE IF args[1].k = "re" /\ Len(args) = 1
    THEN [EmptyOptions EXCEPT !.range = args[1]]
  ELSE LET flattenedRanges == FlattenStrings(args)
       IN IF Len(flattenedRanges) > 0
            THEN [EmptyOptions EXCEPT !.range =
                    IF Len(flattenedRanges) = 1 THEN Lit(flattenedRanges[1])
                    ELSE List(flattenedRanges)]
            ELSE EmptyOptions

Edit(args) == createMethodDecorator("EDIT", EditOptions(args))

Open == createMethodDecorator("OPEN", EmptyOptions)

Change(changeType) ==
  createMethodDecorator("CHANGE", [EmptyOptions EXCEPT !.changeType = changeType])

FormSubmit(args) ==
  LET flattenedFormIds == FlattenStrings(args)
  IN createMethodDecorator("FORM_SUBMIT",
       IF Len(args) > 0 /\ Len(flattenedFormIds) > 0
         THEN [EmptyOptions EXCEPT !.formId =
                 IF Len(flattenedFormIds) = 1 THEN Lit(flattenedFormIds[1])
                 ELSE List(flattenedFormIds)]
         ELSE EmptyOptions)

\* class decorators: the facts Controller(type, options) defines on a class
NoClassFacts ==
  [watermark |-> FALSE, ctype |-> "", hasOptions |-> FALSE, basePath |-> <<>>,
   injectable |-> FALSE]

Controller(type, hasOptions, basePath) ==
  [watermark |-> TRUE, ctype |-> type, hasOptions |-> hasOptions,
   basePath |-> basePath, injectable |-> FALSE]

HttpController(basePath) ==
  Controller("http", TRUE, IF basePath = <<>> THEN <<"/">> ELSE basePath)

SheetController == Controller("appsscript:sheet", TRUE, <<>>)

Injectable == [NoClassFacts EXCEPT !.injectable = TRUE]

\* ------------------------------------------------------------------------
\* The application under dispatch: classes, their decorators and methods
\* ------------------------------------------------------------------------

\* a token that is not a class: what reflection emits for a type it cannot
\* see (an interface behind a circular import)
UndefinedToken == "undefined"

MethodInj(name, http, evt, params, injects, paramtypes, throws) ==
  [name |-> name, http |-> http, evt |-> evt, params |-> params,
   injects |-> injects, paramtypes |-> paramtypes, throws |-> throws]

Method(name, http, evt, params, throws) ==
  MethodInj(name, http, evt, params, <<>>, <<>>, throws)

NoParams == <<>>

Class(facts, parent, paramtypes, methods) ==
  [facts |-> facts, parent |-> parent, paramtypes |-> paramtypes,
   injects |-> <<>>, methods |-> methods]

ClassNames ==
  {"Repo", "Svc", "Plain", "Ghost", "Loop", "Mid", "Deep", "Users", "Items", "Broken",
   "NeedsGhost", "Cyc", "SheetA", "BaseSheet", "SheetB", "BrokenSheet", "Ping", "Pong"}

ClassDecl(c) ==
  CASE c = "Repo" -> Class(Injectable, "Object", <<>>, <<>>)
    [] c = "Svc" -> Class(Injectable, "Object", <<"Repo">>, <<>>)
    [] c = "Plain" -> Class(NoClassFacts, "Object", <<>>, <<>>)
    [] c = "Ghost" -> Class(Injectable, "Object", <<>>, <<>>)
    [] c = "Loop" -> Class(Injectable, "Object", <<"Loop">>, <<>>)
    [] c = "Ping" -> Class(Injectable, "Object", <<"Pong">>, <<>>)
    [] c = "Pong" -> Class(Injectable, "Object", <<"Ping">>, <<>>)
    [] c = "Mid" -> Class(Injectable, "Object", <<UndefinedToken>>, <<>>)
    [] c = "Deep" -> Class(Injectable, "Object", <<"Repo", "Mid">>, <<>>)
    [] c = "Users" ->
         Class(HttpController(<<"/","u">>), "Object", <<"Svc", "Plain">>,
           << Method("list", createHttpDecorator(GET, <<>>), NoEvent, NoParams, FALSE),
              Method("boom", createHttpDecorator(GET, <<"/","b","/","x">>), NoEvent,
                     NoParams, TRUE),
              Method("getOne", createHttpDecorator(GET, <<"/","{","i","}">>), NoEvent,
                     assignMetadata(<<>>, 0, "param", <<"i">>), FALSE),
              Method("getMe", createHttpDecorator(GET, <<"/","m">>), NoEvent,
                     NoParams, FALSE),
              Method("create", createHttpDecorator(POST, <<>>), NoEvent,
                     assignMetadata(assignMetadata(<<>>, 1, "body", <<"n","a","m","e">>),
                                    0, "body", NoKey),
                     FALSE),
              Method("helper", NoHttp, NoEvent, NoParams, FALSE) >>)
    [] c = "Items" ->
         Class(HttpController(<<"/","a","p","i","/","i">>), "Object", <<"Plain">>,
           << Method("add", createHttpDecorator(POST, <<"/">>), NoEvent,
                     assignMetadata(assignMetadata(<<>>, 1, "body", NoKey),
                                    0, "body", <<"x">>),
                     FALSE),
              Method("spaced", createHttpDecorator(GET, <<"/","a","%","2","0","b">>),
                     NoEvent, NoParams, FALSE),
              Method("hdr", createHttpDecorator(GET, <<"/","h">>), NoEvent,
                     assignMetadata(assignMetadata(<<>>, 1, "headers", NoKey),
                                    0, "headers", <<"a","c","c","e","p","t">>),
                     FALSE),
              \* inj(@Inject(Mid) a, @Query() q, @Inject(Repo) c, @Inject() d: Svc)
              MethodInj("inj", createHttpDecorator(GET, <<"/","j">>), NoEvent,
                        assignMetadata(<<>>, 1, "query", NoKey),
                        assignInjectMetadata(
                          assignInjectMetadata(
                            assignInjectMetadata(<<>>, 3, UndefinedToken), 2, "Repo"),
                          0, "Mid"),
                        <<"Mid", "Object", "Repo", "Svc">>, FALSE),
              Method("probe", createHttpDecorator(HEAD, <<"/","h">>), NoEvent,
                     assignMetadata(<<>>, 0, "body", NoKey), FALSE),
              Method("replace", createHttpDecorator(PUT, <<"/">>), NoEvent,
                     assignMetadata(<<>>, 0, "body", NoKey), FALSE) >>)
    [] c = "Broken" ->
         Class(HttpController(<<"/","k">>), "Object", <<"Svc", UndefinedToken>>,
           << Method("get", createHttpDecorator(GET, <<>>), NoEvent, NoParams, FALSE) >>)
    [] c = "NeedsGhost" ->
         Class(HttpController(<<"/","g">>), "Object", <<"Ghost">>,
           << Method("get", createHttpDecorator(GET, <<>>), NoEvent, NoParams, FALSE) >>)
    [] c = "Cyc" ->
         Class(HttpController(<<"/","c">>), "Object", <<"Loop">>,
           << Method("get", createHttpDecorator(GET, <<>>), NoEvent, NoParams, FALSE) >>)
    [] c = "SheetA" ->
         Class(SheetController, "Object", <<"Svc">>,
           << MethodInj("onOpenA", NoHttp, Open,
                        assignMetadata(assignMetadata(<<>>, 1, "body", NoKey), 0, "event", NoKey),
                        assignInjectMetadata(<<>>, 2, "Repo"), <<>>, FALSE),
              Method("failing", NoHttp, Open, NoParams, TRUE),
              Method("onEditRe", NoHttp, Edit(<<RegExpPrefix(<<"A","1">>)>>), NoParams, FALSE),
              Method("onEditLit", NoHttp, Edit(<<Lit(<<"B","2">>), Lit(<<"C","3">>)>>),
                     NoParams, FALSE),
              Method("plain", NoHttp, NoEvent, NoParams, FALSE) >>)
    [] c = "BaseSheet" ->
         Class(NoClassFacts, "Object", <<>>,
           << Method("baseOpen", NoHttp, Open, NoParams, FALSE),
              Method("baseEdit", NoHttp, Edit(<<>>), NoParams, FALSE) >>)
    [] c = "SheetB" ->
         Class(SheetController, "BaseSheet", <<"Plain">>,
           << Method("onChange", NoHttp, Change(Lit(<<"E">>)), NoParams, FALSE),
              Method("late", NoHttp, Open, NoParams, FALSE),
              \* overrides BaseSheet.baseEdit, decorated again
              Method("baseEdit", NoHttp, Edit(<<>>), NoParams, FALSE) >>)
    [] c = "BrokenSheet" ->
         Class(SheetController, "Object", <<UndefinedToken>>,
           << Method("never", NoHttp, Open, NoParams, FALSE) >>)

\* controller classes handed to RouterExplorer.explore on its own
RouteClasses ==
  {"BaseHttp", "ChildHttp", "HeirHttp", "EmptyBase", "SheetWeb", "Typeless", "Bare",
   "Gappy"}

RouteClassDecl(c) ==
  CASE c = "BaseHttp" ->
         Class(HttpController(<<"/","b","a","s","e">>), "Object", <<>>,
           << Method("root", createHttpDecorator(GET, <<"/">>), NoEvent, NoParams, FALSE),
              Method("save", createHttpDecorator(POST, <<"/">>), NoEvent, NoParams, FALSE) >>)
    \* @HttpController() class ChildHttp extends BaseHttp
    [] c = "ChildHttp" ->
         Class(HttpController(<<>>), "BaseHttp", <<>>,
           << Method("noslash", createHttpDecorator(POST, <<"x">>), NoEvent, NoParams, FALSE),
              Method("messy", createHttpDecorator(GET, <<"/","/","a","%","2","0","b","/">>),
                     NoEvent, NoParams, FALSE),
              Method("helper", NoHttp, NoEvent, NoParams, FALSE) >>)
    \* class HeirHttp extends BaseHttp, not decorated itself
    [] c = "HeirHttp" ->
         Class(NoClassFacts, "BaseHttp", <<>>,
           << Method("more", createHttpDecorator(GET, <<"/","m","o","r","e">>), NoEvent,
                     NoParams, FALSE),
              Method("quiet", NoHttp, NoEvent, NoParams, FALSE) >>)
    \* @HttpController("")
    [] c = "EmptyBase" ->
         Class(Controller("http", TRUE, <<>>), "Object", <<>>,
           << Method("get", createHttpDecorator(GET, <<"/","r","/","{","i","d","}">>),
                     NoEvent, NoParams, FALSE) >>)
    [] c = "SheetWeb" ->
         Class(SheetController, "Object", <<>>,
           << Method("get", createHttpDecorator(GET, <<"/","s">>), NoEvent, NoParams, FALSE) >>)
    \* @Controller()
    [] c = "Typeless" ->
         Class(Controller("", FALSE, <<>>), "Object", <<>>,
           << Method("get", createHttpDecorator(GET, <<"/","t">>), NoEvent, NoParams, FALSE) >>)
    [] c = "Bare" ->
         Class(NoClassFacts, "Object", <<>>,
           << Method("get", createHttpDecorator(GET, <<"/","n">>), NoEvent, NoParams, FALSE) >>)
    \* handlers whose decorated parameters leave positions undeclared
    [] c = "Gappy" ->
         Class(HttpController(<<"/","g","a","p">>), "Object", <<>>,
           << \* late(a, b, @Query() q)
              Method("late", createHttpDecorator(GET, <<"/","l">>), NoEvent,
                     assignMetadata(<<>>, 2, "query", NoKey), FALSE),
              \* ends(@Param("i") i, b, c, @Body() body)
              Method("ends", createHttpDecorator(POST, <<"/","{","i","}">>), NoEvent,
                     assignMetadata(assignMetadata(<<>>, 3, "body", NoKey),
                                    0, "param", <<"i">>),
                     FALSE),
              \* holes(a, @Query("q") q, c, d, @Event() e)
              Method("holes", createHttpDecorator(GET, <<"/","h">>), NoEvent,
                     assignMetadata(assignMetadata(<<>>, 4, "event", NoKey),
                                    1, "query", <<"q">>),
                     FALSE),
              Method("none", createHttpDecorator(GET, <<"/","n">>), NoEvent, NoParams, FALSE),
              \* mixed(a, @Param() p, c, @Inject(Repo) r)
              MethodInj("mixed", createHttpDecorator(GET, <<"/","m">>), NoEvent,
                        assignMetadata(<<>>, 1, "param", NoKey),
                        assignInjectMetadata(<<>>, 3, "Repo"),
                        <<"Object", "Object", "Object", "Repo">>, FALSE) >>)

\* the declarations, evaluated once
ClassTable == [c \in ClassNames |-> ClassDecl(c)]

\* the declarations with the classes of the calls made on their own
LibraryTable ==
  [c \in ClassNames \cup RouteClasses |->
     IF c \in ClassNames THEN ClassDecl(c) ELSE RouteClassDecl(c)]

\* the reflect-metadata store: what the decorators defined on each class,
\* written while the classes are declared and only read afterwards
VARIABLE reflect

ClassDef(c) == reflect[c]

\* configurations handed to App.create
Configs ==
  { [controllers |-> <<"Users", "Items", "SheetA", "SheetB">>,
     providers |-> <<"Repo", "Svc", "Plain">>],
    [controllers |-> <<"SheetA", "BrokenSheet", "SheetB", "Broken", "NeedsGhost", "Cyc", "Plain">>,
     providers |-> <<"Repo", "Svc", "Loop", "Plain", "Mid", "Deep", "Ping", "Pong">>],
    [controllers |-> <<"SheetB", "Users", "SheetB">>,
     providers |-> <<"Plain">>] }

\* ------------------------------------------------------------------------
\* Reflect.getMetadata on classes: own facts first, then the parent's
\* ------------------------------------------------------------------------

RECURSIVE ProtoChain(_)
ProtoChain(c) ==
  IF c = "Object" THEN <<>> ELSE <<c>> \o ProtoChain(ClassDef(c).parent)

isFunctionLike(token) == token \in ClassNames \cup RouteClasses

isController(c) ==
  \E i \in 1..Len(ProtoChain(c)) : ClassDef(ProtoChain(c)[i]).facts.watermark

isInjectable(c) ==
  \E i \in 1..Len(ProtoChain(c)) : ClassDef(ProtoChain(c)[i]).facts.injectable

\* Reflect.getMetadata(CONTROLLER_TYPE_METADATA, c) || null, "" for null
ControllerType(c) ==
  LET chain == ProtoChain(c)
      own == {i \in 1..Len(chain) : ClassDef(chain[i]).facts.ctype # ""}
  IN IF own = {} THEN ""
     ELSE ClassDef(chain[CHOOSE i \in own : \A j \in own : i <= j]).facts.ctype

\* Reflect.getMetadata(CONTROLLER_OPTIONS_METADATA, c) || {}, then .basePath
ControllerBasePath(c) ==
  LET chain == ProtoChain(c)
      own == {i \in 1..Len(chain) : ClassDef(chain[i]).facts.hasOptions}
  IN IF own = {} THEN <<>>
     ELSE ClassDef(chain[CHOOSE i \in own : \A j \in own : i <= j]).facts.basePath

\* Reflect.getMetadata(PARAMTYPES_METADATA, c) || []
DesignParamTypes(c) ==
  LET chain == ProtoChain(c)
      own == {i \in 1..Len(chain) : ClassDef(chain[i]).paramtypes # <<>>}
  IN IF own = {} THEN <<>>
     ELSE ClassDef(chain[CHOOSE i \in own : \A j \in own : i <= j]).paramtypes

\* getInjectionTokens(target) for a class constructor
getInjectionTokens(c) ==
  LET chain == ProtoChain(c)
      own == {i \in 1..Len(chain) : ClassDef(chain[i]).injects # <<>>}
  IN IF own = {} THEN <<>>
     ELSE ClassDef(chain[CHOOSE i \in own : \A j \in own : i <= j]).injects

\* ------------------------------------------------------------------------
\* Instance caches (Map<Newable, unknown>) and the dependency resolver
\* ------------------------------------------------------------------------

MapGet(m, k) ==
  IF HasKey(m, k) THEN m[CHOOSE i \in 1..Len(m) : m[i][1] = k][2] ELSE Undefined

MapKeys(m) == [i \in 1..Len(m) |-> m[i][1]]

Instance(c, id, deps) == [t |-> "instance", cls |-> c, id |-> id, deps |-> deps]

Error(msg, about) == [name |-> "Error", msg |-> msg, about |-> about]

\* the engine state a call reads and writes: both caches, the count of
\* objects constructed so far, the construction history and the console
Returned(st, v) == [st |-> st, ok |-> TRUE, val |-> v, err |-> Error("", ""), failed |-> {}]

Thrown(st, e, frames) == [st |-> st, ok |-> FALSE, val |-> Undefined, err |-> e, failed |-> frames]

Log(st, level, what) == [st EXCEPT !.console = Append(@, <<level, what>>)]

\* a construction that is recorded ahead of everything built so far
ConstructAhead(st, target, deps) ==
  LET instance == Instance(target, st.nextId, deps)
      built == [st EXCEPT !.nextId = @ + 1, !.constructed = <<target>> \o @]
  IN IF isController(target)
       THEN Returned([built EXCEPT !.controllers = SetProp(@, target, instance)], instance)
     ELSE IF isInjectable(target)
       THEN Returned([built EXCEPT !.providers = SetProp(@, target, instance)], instance)
     ELSE Returned(Log(built, "warn", target), instance)

\* new target(...deps), then the classification into a cache partition
Construct(st, target, deps) ==
  LET instance == Instance(target, st.nextId, deps)
      built == [st EXCEPT !.nextId = @ + 1, !.constructed = Append(@, target)]
  IN IF isController(target)
       THEN Returned([built EXCEPT !.controllers = SetProp(@, target, instance)], instance)
     ELSE IF isInjectable(target)
       THEN Returned([built EXCEPT !.providers = SetProp(@, target, instance)], instance)
     ELSE Returned(Log(built, "warn", target), instance)

\* the token resolve uses for constructor position i (1-based here)
TokenAt(target, i) ==
  LET explicitInjectTokens == getInjectionTokens(target)
      paramKey == <<"inject", i - 1>>
      designParamTypes == DesignParamTypes(target)
  IN IF HasKey(explicitInjectTokens, paramKey)
       THEN MapGet(explicitInjectTokens, paramKey).token
     ELSE IF i <= Len(designParamTypes) THEN designParamTypes[i]
     ELSE UndefinedToken

\* a cached, already built instance of target, or Undefined
Cached(st, target) ==
  IF HasKey(st.controllers, target) /\ MapGet(st.controllers, target) # Null
    THEN MapGet(st.controllers, target)
  ELSE IF HasKey(st.providers, target) /\ MapGet(st.providers, target) # Null
    THEN MapGet(st.providers, target)
  ELSE Undefined

RECURSIVE resolve(_, _, _, _)
RECURSIVE ResolveDepsMap(_, _, _, _, _, _)
RECURSIVE ResolveDepsLoop(_, _, _, _, _, _)

\* one dependency was resolved (or not): go on with the next slot
NextDepMap(r, target, i, deps, depth, ver) ==
  IF r.ok THEN ResolveDepsMap(r.st, target, i + 1, Append(deps, r.val), depth, ver)
  ELSE r

\* src/utils/resolve.ts: designParamTypes.map(...)
ResolveDepsMap(st, target, i, deps, depth, ver) ==
  IF i > Len(DesignParamTypes(target)) THEN Returned(st, deps)
  ELSE IF TokenAt(target, i) = UndefinedToken
    THEN ResolveDepsMap(st, target, i + 1, Append(deps, Undefined), depth, ver)
  ELSE NextDepMap(resolve(st, TokenAt(target, i), depth + 1, ver),
                  target, i, deps, depth, ver)

NextDepLoop(r, target, i, deps, depth, ver) ==
  IF r.ok THEN ResolveDepsLoop(r.st, target, i + 1, Append(deps, r.val), depth, ver)
  ELSE r

\* new Array(Math.max(designParamTypes.length, Object.keys(tokens).length))
DepsLength(target) ==
  IF Len(DesignParamTypes(target)) >= Len(getInjectionTokens(target))
    THEN Len(DesignParamTypes(target))
    ELSE Len(getInjectionTokens(target))

\* the other resolve of the repository: the for loop over the dependency slots
ResolveDepsLoop(st, target, i, deps, depth, ver) ==
  IF i > DepsLength(target) THEN Returned(st, deps)
  ELSE IF ~isFunctionLike(TokenAt(target, i))
    THEN Thrown(st, Error("Invalid injection token", target), {})
  ELSE IF ~HasKey(st.providers, TokenAt(target, i))
          /\ ~HasKey(st.controllers, TokenAt(target, i))
    THEN Thrown(st, Error("is not registered", TokenAt(target, i)), {})
  ELSE NextDepLoop(resolve(st, TokenAt(target, i), depth + 1, ver),
                   target, i, deps, depth, ver)

\* a resolver that registers the class before its dependencies are known to
\* resolve, and leaves it registered when they do not
InstantiateEager(d, target) ==
  IF ~d.ok
    THEN [d EXCEPT !.failed = @ \cup {target}, !.st = Construct(@, target, <<>>).st]
  ELSE IF \E k \in 1..Len(d.val) : d.val[k] = Undefined
    THEN Thrown(Construct(d.st, target, <<>>).st,
                Error("Could not resolve all dependencies", target), {target})
  ELSE Construct(d.st, target, d.val)

\* the dependencies are known: throw, or construct and cache
Instantiate(d, target) ==
  IF ~d.ok THEN [d EXCEPT !.failed = @ \cup {target}]
  ELSE IF \E k \in 1..Len(d.val) : d.val[k] = Undefined
    THEN Thrown(d.st, Error("Could not resolve all dependencies", target), {target})
  ELSE Construct(d.st, target, d.val)

\* a resolver that reports the cycle itself once the recursion is deep
resolveCycleError(st, target, depth, ver) ==
  IF depth > MaxStack
    THEN Thrown(st, Error("Circular dependency", target), {target})
  ELSE IF Cached(st, target) # Undefined THEN Returned(st, Cached(st, target))
  ELSE Instantiate(IF ver = "map"
                     THEN ResolveDepsMap(st, target, 1, <<>>, depth, ver)
                     ELSE ResolveDepsLoop(st, target, 1, <<>>, depth, ver),
                   target)

\* the recursion has no guard of its own: it ends only when the engine's call
\* stack is exhausted, which raises RangeError
resolve(st, target, depth, ver) ==
  IF depth > MaxStack
    THEN Thrown(st, [name |-> "RangeError", msg |-> "Maximum call stack size exceeded",
                     about |-> ""], {target})
  ELSE IF Cached(st, target) # Undefined THEN Returned(st, Cached(st, target))
  ELSE Instantiate(IF ver = "map"
                     THEN ResolveDepsMap(st, target, 1, <<>>, depth, ver)
                     ELSE ResolveDepsLoop(st, target, 1, <<>>, depth, ver),
                   target)

\* ------------------------------------------------------------------------
\* Property access on JavaScript values
\* ------------------------------------------------------------------------

\* value?.[key]: undefined for a missing key and for a value that is no object
GetProp(v, key) ==
  IF v.t = "object" /\ HasKey(v.f, key) THEN MapGet(v.f, key) ELSE Undefined

\* key in value
In(key, v) == v.t = "object" /\ HasKey(v.f, key)

\* the truthiness JavaScript gives a value of the model
Truthy(v) ==
  CASE v.t = "null" -> FALSE
    [] v.t = "undefined" -> FALSE
    [] v.t = "string" -> v.s # <<>>
    [] v.t = "number" -> v.n # 0
    [] OTHER -> TRUE

isString(v) == v.t = "string"

isObject(v) == v.t = "object"

\* String.prototype.toLowerCase, character by character
ToLowerChar(c) ==
  IF \E i \in 34..59 : Ascii[i] = c
    THEN Ascii[(CHOOSE i \in 34..59 : Ascii[i] = c) + 32]
    ELSE c

toLowerCase(s) == [i \in 1..Len(s) |-> ToLowerChar(s[i])]

\* property names the engine reads
kPathInfo == <<"p","a","t","h","I","n","f","o">>

kParameter == <<"p","a","r","a","m","e","t","e","r">>

kParameters == <<"p","a","r","a","m","e","t","e","r","s">>

kMethod == <<"m","e","t","h","o","d">>

kHeaders == <<"h","e","a","d","e","r","s">>

kPath == <<"p","a","t","h">>

kPathname == <<"p","a","t","h","n","a","m","e">>

kPostData == <<"p","o","s","t","D","a","t","a">>

kContents == <<"c","o","n","t","e","n","t","s">>

kType == <<"t","y","p","e">>

kAccept == <<"A","c","c","e","p","t">>

kContentType == <<"C","o","n","t","e","n","t","-","T","y","p","e">>

kRange == <<"r","a","n","g","e">>

kSource == <<"s","o","u","r","c","e">>

kChangeType == <<"c","h","a","n","g","e","T","y","p","e">>

kError == <<"e","r","r","o","r">>

kName == <<"n","a","m","e">>

kX == <<"x">>

kUrl == <<"u","r","l">>

kBody == <<"b","o","d","y">>

\* JSON.parse(text.trim()) on the texts the model sends; a text is kept as
\* one piece because the engine never splits it
JSONParse(text) ==
  CASE text = <<"{\"name\":\"Ann\"}">> ->
         [ok |-> TRUE, val |-> Obj(<< <<kName, Text(<<"A","n","n">>)>> >>)]
    [] text = <<"{\"x\":1}">> -> [ok |-> TRUE, val |-> Obj(<< <<kX, Num(1)>> >>)]
    [] text = <<"\"hi\"">> -> [ok |-> TRUE, val |-> Text(<<"h","i">>)]
    [] text = <<"{\"Accept\":\"application/json\"}">> ->
         [ok |-> TRUE, val |-> Obj(<< <<kAccept, Text(<<"application/json">>)>> >>)]
    [] text = <<"{\"accept\":\"google/json\"}">> ->
         [ok |-> TRUE, val |-> Obj(<< <<toLowerCase(kAccept), Text(<<"google/json">>)>> >>)]
    [] OTHER -> [ok |-> FALSE, val |-> Undefined]

\* ------------------------------------------------------------------------
\* createRequest
\* ------------------------------------------------------------------------

RequestVerbAsGiven(methodParam, methodRequest) ==
  IF methodParam # <<>> THEN methodParam ELSE methodRequest

\* Object.values(RequestMethod).includes(methodParam) ? methodParam : methodRequest
RequestVerb(methodParam, methodRequest) ==
  IF methodParam \in RequestMethod THEN methodParam ELSE methodRequest

RequestBodyAnyVerb(method, event) ==
  IF In(kPostData, event) THEN GetProp(GetProp(event, kPostData), kContents) ELSE Null

\* the body: event.postData.contents for post, put, patch and delete
RequestBody(method, event) ==
  IF method \in {POST, PUT, PATCH, DELETE}
    THEN IF In(kPostData, event)
           THEN GetProp(GetProp(event, kPostData), kContents)
           ELSE Null
    ELSE Null

createRequest(methodRequest, event) ==
  LET parameter == GetProp(event, kParameter)
      input == GetProp(parameter, kHeaders)
      parsed == IF ~isString(input) THEN Null
                ELSE IF JSONParse(input.s).ok THEN JSONParse(input.s).val
                ELSE Null
      headers == IF Truthy(parsed) THEN parsed ELSE Obj(<<>>)
      methodParam == IF isString(GetProp(parameter, kMethod))
                       THEN toLowerCase(GetProp(parameter, kMethod).s)
                       ELSE <<>>
      method == RequestVerb(methodParam, methodRequest)
      rawPathname ==
        IF Truthy(GetProp(event, kPathInfo)) THEN GetProp(event, kPathInfo).s
        ELSE IF Truthy(GetProp(parameter, kPath)) THEN GetProp(parameter, kPath).s
        ELSE IF Truthy(GetProp(parameter, kPathname)) THEN GetProp(parameter, kPathname).s
        ELSE <<>>
      pathname == normalize(rawPathname)
      query == IF In(kParameters, event) THEN GetProp(event, kParameters) ELSE Obj(<<>>)
      body == RequestBody(method, event)
  IN [headers |-> headers, method |-> method, pathname |-> pathname,
      query |-> query, body |-> body]

\* the HttpRequest as a value a handler can receive
RequestValue(request) ==
  Obj(<< <<kHeaders, request.headers>>, <<kMethod, Text(request.method)>>,
         <<kUrl, Obj(<< <<kPathname, Text(request.pathname)>> >>)>>,
         <<kBody, request.body>> >>)

\* ------------------------------------------------------------------------
\* createResponse and wrapResponse
\* ------------------------------------------------------------------------

HttpStatus(name) ==
  CASE name = "OK" -> 200
    [] name = "CREATED" -> 201
    [] name = "NOT_FOUND" -> 404
    [] name = "INTERNAL_SERVER_ERROR" -> 500

HttpStatusNames == {"OK", "CREATED", "NOT_FOUND", "INTERNAL_SERVER_ERROR"}

\* a response whose inferred status is 200 for every verb
createResponseOk(request, status, headers, data) ==
  LET resolvedStatus == IF status # "" THEN HttpStatus(status) ELSE HttpStatus("OK")
      ok == resolvedStatus >= 200 /\ resolvedStatus < 300
  IN [headers |-> headers, ok |-> ok, status |-> resolvedStatus,
      statusText |-> CHOOSE n \in HttpStatusNames : HttpStatus(n) = resolvedStatus,
      body |-> IF ok THEN data ELSE Obj(<< <<kError, data>> >>)]

\* status "" stands for an undefined status argument
createResponse(request, status, headers, data) ==
  LET resolvedStatus ==
        IF status # "" THEN HttpStatus(status)
        ELSE IF request.method \in {GET, HEAD, OPTIONS} THEN HttpStatus("OK")
        ELSE HttpStatus("CREATED")
      statusText ==
        IF \E n \in HttpStatusNames : HttpStatus(n) = resolvedStatus
          THEN CHOOSE n \in HttpStatusNames : HttpStatus(n) = resolvedStatus
          ELSE "UNKNOWN_STATUS"
      ok == resolvedStatus >= 200 /\ resolvedStatus < 300
  IN [headers |-> headers, ok |-> ok, status |-> resolvedStatus,
      statusText |-> statusText,
      body |-> IF ok THEN data ELSE Obj(<< <<kError, data>> >>)]

NoResponse ==
  [headers |-> Obj(<<>>), ok |-> FALSE, status |-> 0, statusText |-> "", body |-> Undefined]

\* JSON.stringify(v): the JSON text of v, kept as the value it encodes
JSONStringify(v) == [t |-> "json", of |-> v]

\* a serialization that never includes the envelope
SerializedBody(request, response) == JSONStringify(response.body)

\* isApi, and the text wrapResponse builds from it
Serialized(request, response) ==
  LET isApi == StartsWith(request.pathname, <<"/","a","p","i","/">>)
  IN JSONStringify(IF isApi THEN response ELSE response.body)

\* what the entry function hands back to the platform
wrapResponse(request, response) ==
  LET accept == GetProp(request.headers, kAccept)
      mimeType == IF Truthy(accept) THEN accept ELSE Text(<<"text/html">>)
      tagged == [response EXCEPT !.headers = Obj(SetProp(@.f, kContentType, mimeType))]
      isApi == StartsWith(request.pathname, <<"/","a","p","i","/">>)
      kind == CASE mimeType = Text(<<"google/json">>) -> "string"
                [] mimeType = Text(<<"google/plain">>) -> "string"
                [] mimeType = Text(<<"application/json">>) -> "TextOutput:JSON"
                [] mimeType = Text(<<"text/plain">>) -> "TextOutput:TEXT"
                [] mimeType = Text(<<"text/html">>) -> "HtmlOutput"
                [] OTHER -> "undefined"
  IN [kind |-> kind, envelope |-> isApi, response |-> tagged,
      payload |-> Serialized(request, tagged)]

\* ------------------------------------------------------------------------
\* Event filter evaluator
\* ------------------------------------------------------------------------

\* a declared filter value is truthy unless it is absent or the empty string
FilterDeclared(f) == f.k # "none" /\ ~(f.k = "str" /\ f.v = <<>>)

\* a comparison that treats the source of a regular expression as a literal
FilterSomeLiteral(f, value) ==
  CASE f.k = "re" -> value = f.v
    [] f.k = "str" -> value = f.v
    [] f.k = "list" -> \E i \in 1..Len(f.v) : value = f.v[i]
    [] OTHER -> FALSE

\* ranges.some(r => r instanceof RegExp ? r.test(value) : value === r)
FilterSome(f, value) ==
  CASE f.k = "re" -> StartsWith(value, f.v)
    [] f.k = "str" -> value = f.v
    [] f.k = "list" -> \E i \in 1..Len(f.v) : value = f.v[i]
    [] OTHER -> FALSE

checkEventFilters(eventType, event, evt) ==
  IF ~evt.hasOptions THEN TRUE
  ELSE CASE eventType = "EDIT" /\ FilterDeclared(evt.options.range) ->
              LET eventRangeA1 == GetProp(event, kRange)
              IN IF ~Truthy(eventRangeA1) THEN FALSE
                 ELSE FilterSome(evt.options.range, eventRangeA1.s)
         [] eventType = "FORM_SUBMIT" /\ FilterDeclared(evt.options.formId) ->
              LET eventFormId == GetProp(event, kSource)
              IN IF ~Truthy(eventFormId) THEN FALSE
                 ELSE FilterSome(evt.options.formId, eventFormId.s)
         [] eventType = "CHANGE" /\ FilterDeclared(evt.options.changeType) ->
              LET eventChangeType == GetProp(event, kChangeType)
              IN IF ~Truthy(eventChangeType) THEN FALSE
                 ELSE FilterSome(evt.options.changeType, eventChangeType.s)
         [] OTHER -> TRUE

\* ------------------------------------------------------------------------
\* Methods along the prototype chain
\* ------------------------------------------------------------------------

\* Object.getOwnPropertyNames(C.prototype) without "constructor"
OwnMethodNames(c) == [i \in 1..Len(ClassDef(c).methods) |-> ClassDef(c).methods[i].name]

HasOwnMethod(c, name) == \E i \in 1..Len(ClassDef(c).methods) : ClassDef(c).methods[i].name = name

OwnMethod(c, name) ==
  ClassDef(c).methods[CHOOSE i \in 1..Len(ClassDef(c).methods) :
                        ClassDef(c).methods[i].name = name]

\* the class whose prototype answers C.prototype[name], "" when none does
MethodOwner(c, name) ==
  LET chain == ProtoChain(c)
      own == {i \in 1..Len(chain) : HasOwnMethod(chain[i], name)}
  IN IF own = {} THEN "" ELSE chain[CHOOSE i \in own : \A j \in own : i <= j]

\* Reflect.getMetadata(PARAM_DEFINITIONS_METADATA, C.prototype, name) || {}
ParamDefinitions(c, name) ==
  LET chain == ProtoChain(c)
      own == {i \in 1..Len(chain) :
                HasOwnMethod(chain[i], name) /\ OwnMethod(chain[i], name).params # <<>>}
  IN IF own = {} THEN <<>>
     ELSE OwnMethod(chain[CHOOSE i \in own : \A j \in own : i <= j], name).params

\* getInjectionTokens(C.prototype, name)
MethodInjectionTokens(c, name) ==
  LET chain == ProtoChain(c)
      own == {i \in 1..Len(chain) :
                HasOwnMethod(chain[i], name) /\ OwnMethod(chain[i], name).injects # <<>>}
  IN IF own = {} THEN <<>>
     ELSE OwnMethod(chain[CHOOSE i \in own : \A j \in own : i <= j], name).injects

\* Reflect.getMetadata(PARAMTYPES_METADATA, C.prototype, name) || []
MethodParamTypes(c, name) ==
  LET chain == ProtoChain(c)
      own == {i \in 1..Len(chain) :
                HasOwnMethod(chain[i], name) /\ OwnMethod(chain[i], name).paramtypes # <<>>}
  IN IF own = {} THEN <<>>
     ELSE OwnMethod(chain[CHOOSE i \in own : \A j \in own : i <= j], name).paramtypes

\* ------------------------------------------------------------------------
\* Parameter binder
\* ------------------------------------------------------------------------

\* metadata.sort((a, b) => a.index - b.index): a stable sort
RECURSIVE SortByIndex(_, _)
SortByIndex(metadata, idx) ==
  IF \A i \in 1..Len(metadata) : metadata[i].index < idx THEN <<>>
  ELSE SelectSeq(metadata, LAMBDA d : d.index = idx) \o SortByIndex(metadata, idx + 1)

\* args[index] = v on a JavaScript array; holes read as undefined
SetArgPush(args, index, v) == Append(args, v)

SetArg(args, index, v) ==
  LET n == IF Len(args) > index + 1 THEN Len(args) ELSE index + 1
  IN [i \in 1..n |-> IF i = index + 1 THEN v
                     ELSE IF i <= Len(args) THEN args[i]
                     ELSE Undefined]

\* key ? (obj ?? {})[key] : obj
KeyOrWhole(obj, key) == IF key # NoKey THEN GetProp(obj, key) ELSE obj

\* a BODY binding that ignores the declared key
BindBodyWhole(param, ctx) == ctx.body

BindBody(param, ctx) ==
  IF param.key # NoKey /\ Truthy(ctx.body) /\ isObject(ctx.body)
    THEN GetProp(ctx.body, param.key)
    ELSE ctx.body

BindHeaders(param, ctx) ==
  IF param.key # NoKey /\ Truthy(ctx.headers)
    THEN LET names == MapKeys(ctx.headers.f)
             hit == {i \in 1..Len(names) : toLowerCase(names[i]) = toLowerCase(param.key)}
         IN IF hit = {} THEN Undefined
            ELSE LET headerKey == names[CHOOSE i \in hit : \A j \in hit : i <= j]
                 IN IF headerKey # <<>> THEN GetProp(ctx.headers, headerKey) ELSE Undefined
    ELSE ctx.headers

\* a catch that leaves null in place of undefined
InjectOrNull(r) ==
  IF r.ok THEN [st |-> r.st, val |-> r.val] ELSE [st |-> r.st, val |-> Null]

\* the catch of the INJECT case: a failed resolve leaves undefined
InjectOrUndefined(r) ==
  IF r.ok THEN [st |-> r.st, val |-> r.val] ELSE [st |-> r.st, val |-> Undefined]

\* "token" in param ? param.token : designParamTypes[param.index]; a record
\* written by assignInjectMetadata always has the token field, holding
\* undefined when @Inject() was given no token
TokenToResolve(param, designParamTypes) ==
  IF param.token # ""
    THEN param.token
    ELSE IF param.index + 1 <= Len(designParamTypes)
      THEN designParamTypes[param.index + 1]
      ELSE UndefinedToken

\* the INJECT case: the try block around resolve
BindInject(st, token, ver) ==
  IF token # UndefinedToken
    THEN InjectOrUndefined(resolve(st, token, 1, ver))
    ELSE [st |-> st, val |-> Undefined]

BindOne(st, param, ctx, designParamTypes, ver) ==
  CASE param.type = "param" -> [st |-> st, val |-> KeyOrWhole(ctx.params, param.key)]
    [] param.type = "query" -> [st |-> st, val |-> KeyOrWhole(ctx.query, param.key)]
    [] param.type = "body" -> [st |-> st, val |-> BindBody(param, ctx)]
    [] param.type = "event" -> [st |-> st, val |-> KeyOrWhole(ctx.event, param.key)]
    [] param.type = "request" -> [st |-> st, val |-> KeyOrWhole(ctx.request, param.key)]
    [] param.type = "headers" -> [st |-> st, val |-> BindHeaders(param, ctx)]
    [] param.type = "response" -> [st |-> st, val |-> KeyOrWhole(ctx.response, param.key)]
    [] param.type = "inject" ->
         BindInject(st, TokenToResolve(param, designParamTypes), ver)

RECURSIVE BindAll(_, _, _, _, _, _, _)

\* args[param.index] = value, then the next declaration
BindNext(b, metadata, i, args, ctx, designParamTypes, ver) ==
  BindAll(b.st, metadata, i + 1, SetArg(args, metadata[i].index, b.val),
          ctx, designParamTypes, ver)

BindAll(st, metadata, i, args, ctx, designParamTypes, ver) ==
  IF i > Len(metadata) THEN [st |-> st, args |-> args]
  ELSE BindNext(BindOne(st, metadata[i], ctx, designParamTypes, ver),
                metadata, i, args, ctx, designParamTypes, ver)

\* a context holding the raw event only, as App.on passes it
EventOnly(event) ==
  [event |-> event, params |-> Undefined, query |-> Undefined, body |-> Undefined,
   request |-> Undefined, headers |-> Undefined, response |-> Undefined]

buildMethodParams(st, target, propertyKey, ctx, ver) ==
  LET rawMetadata == ParamDefinitions(target.cls, propertyKey)
      rawInjectMetadata == MethodInjectionTokens(target.cls, propertyKey)
      metadata == SortByIndex(ObjectValues(rawMetadata) \o ObjectValues(rawInjectMetadata), 0)
      designParamTypes == MethodParamTypes(target.cls, propertyKey)
  IN BindAll(st, metadata, 1, <<>>, ctx, designParamTypes, ver)

\* ------------------------------------------------------------------------
\* Route table builder
\* ------------------------------------------------------------------------

RECURSIVE ExploreMethods(_, _, _)
ExploreMethods(controller, i, routes) ==
  IF i > Len(ClassDef(controller).methods) THEN routes
  ELSE LET methodHandler == ClassDef(controller).methods[i]
           routePath == methodHandler.http.path
           requestMethod == methodHandler.http.verb
           basePath == IF ControllerBasePath(controller) # <<>>
                         THEN ControllerBasePath(controller) ELSE <<"/">>
       IN IF routePath # <<>> /\ requestMethod # <<>>
            THEN ExploreMethods(controller, i + 1,
                   Append(routes,
                     [controller |-> controller, handler |-> methodHandler.name,
                      method |-> requestMethod,
                      path |-> decodeURI(normalize(<<"/">> \o basePath \o <<"/">> \o routePath)).s]))
            ELSE ExploreMethods(controller, i + 1, routes)

RECURSIVE ExploreFromAll(_, _, _)
ExploreFromAll(keys, i, routes) ==
  IF i > Len(keys) THEN routes
  ELSE ExploreFromAll(keys, i + 1, ExploreMethods(keys[i], 1, routes))

RECURSIVE ExploreFrom(_, _, _)
ExploreFrom(keys, i, routes) ==
  IF i > Len(keys) THEN routes
  ELSE IF ControllerType(keys[i]) # "http" THEN ExploreFrom(keys, i + 1, routes)
  ELSE ExploreFrom(keys, i + 1, ExploreMethods(keys[i], 1, routes))

\* RouterExplorer.explore(controllers)
explore(controllers) == ExploreFrom(MapKeys(controllers), 1, <<>>)

\* ------------------------------------------------------------------------
\* App: construction
\* ------------------------------------------------------------------------

RECURSIVE RegisterControllers(_, _, _)
RegisterControllers(list, i, m) ==
  IF i > Len(list) THEN m
  ELSE IF ~isFunctionLike(list[i]) \/ ~isController(list[i])
    THEN RegisterControllers(list, i + 1, m)
  ELSE RegisterControllers(list, i + 1, SetProp(m, list[i], Null))

RECURSIVE RegisterProviders(_, _, _)
RegisterProviders(list, i, m) ==
  IF i > Len(list) THEN m
  ELSE IF ~isFunctionLike(list[i]) THEN RegisterProviders(list, i + 1, m)
  ELSE RegisterProviders(list, i + 1, SetProp(m, list[i], Null))

\* ------------------------------------------------------------------------
\* App.do
\* ------------------------------------------------------------------------

\* String(err)
StringOf(err) == Text(<<err.name, ": ", err.msg, " ", err.about>>)

NoError == Error("", "")

NoOutput ==
  [kind |-> "", envelope |-> FALSE, response |-> NoResponse, payload |-> Undefined]

Outcome(st, request, routeIdx, raised, err, response, output, calls) ==
  [st |-> st, request |-> request, routeIdx |-> routeIdx, raised |-> raised,
   err |-> err, response |-> response, output |-> output, calls |-> calls]

\* a lookup that forgets the verb
FindRouteAnyVerb(routes, request, pathname) ==
  LET hits == {i \in 1..Len(routes) : pathMatch(routes[i].path, pathname)}
  IN IF hits = {} THEN 0 ELSE CHOOSE i \in hits : \A j \in hits : i <= j

\* a lookup that prefers the last matching record
FindRouteLast(routes, request, pathname) ==
  LET hits == {i \in 1..Len(routes) :
                 routes[i].method = request.method /\ pathMatch(routes[i].path, pathname)}
  IN IF hits = {} THEN 0 ELSE CHOOSE i \in hits : \A j \in hits : i >= j

\* this._routes.find(...): the position of the first record that has the
\* request's verb and matches the decoded path, 0 for none
FindRoute(routes, request, pathname) ==
  LET hits == {i \in 1..Len(routes) :
                 routes[i].method = request.method /\ pathMatch(routes[i].path, pathname)}
  IN IF hits = {} THEN 0 ELSE CHOOSE i \in hits : \A j \in hits : i <= j

\* App.do without its catch block: the error leaves the dispatcher
CatchDoRethrow(st, request, routeIdx, err, calls) ==
  Outcome(st, request, routeIdx, TRUE, err, NoResponse, NoOutput, calls)

\* the catch block of App.do
CatchDo(st, request, routeIdx, err, calls) ==
  LET response == createResponse(request, "INTERNAL_SERVER_ERROR", Obj(<<>>), StringOf(err))
  IN Outcome(Log(st, "error", err.name), request, routeIdx, FALSE, err, response,
             wrapResponse(request, response), calls)

\* a not-found branch that answers 200 with the data passed through
NotFoundOk(st, request) ==
  LET response == createResponse(request, "OK", Obj(<<>>), Null)
  IN Outcome(st, request, 0, FALSE, NoError, response, wrapResponse(request, response), <<>>)

\* the branch of App.do taken when no route was found
NotFound(st, request) ==
  LET response == createResponse(request, "NOT_FOUND", Obj(<<>>), Null)
  IN Outcome(st, request, 0, FALSE, NoError, response, wrapResponse(request, response), <<>>)

\* a body step that drops a JSON body it cannot parse
ParseBodyNull(st, event) ==
  LET data == IF In(kPostData, event)
                THEN GetProp(GetProp(event, kPostData), kContents) ELSE Null
      type == IF In(kPostData, event)
                THEN GetProp(GetProp(event, kPostData), kType) ELSE Text(<<"text/plain">>)
  IN IF isString(data) /\ type = Text(<<"application/json">>)
       THEN IF JSONParse(data.s).ok
              THEN [st |-> st, body |-> JSONParse(data.s).val]
              ELSE [st |-> Log(st, "warn", "Failed to parse JSON"), body |-> Null]
     ELSE [st |-> st, body |-> data]

\* a body step that hands postData.contents over as it came
ParseBodyRaw(st, event) ==
  [st |-> st,
   body |-> IF In(kPostData, event)
              THEN GetProp(GetProp(event, kPostData), kContents) ELSE Null]

\* the body handed to the binder: postData.contents, parsed when it is
\* declared as JSON and parses
ParseBody(st, event) ==
  LET data == IF In(kPostData, event)
                THEN GetProp(GetProp(event, kPostData), kContents) ELSE Null
      type == IF In(kPostData, event)
                THEN GetProp(GetProp(event, kPostData), kType) ELSE Text(<<"text/plain">>)
  IN IF ~isString(data) THEN [st |-> st, body |-> data]
     ELSE IF type = Text(<<"application/json">>)
       THEN IF JSONParse(data.s).ok
              THEN [st |-> st, body |-> JSONParse(data.s).val]
              ELSE [st |-> Log(st, "warn", "Failed to parse JSON"), body |-> data]
     ELSE [st |-> st, body |-> data]

\* one call of a handler: what it was called with and whether it threw
Call(instance, name, args) ==
  [cls |-> instance.cls, instance |-> instance, method |-> name, args |-> args,
   threw |-> OwnMethod(MethodOwner(instance.cls, name), name).throws]

ResultOf(call) == [t |-> "result", of |-> call.method, args |-> call.args]

\* handler(...args), then createResponse and wrapResponse, or the catch block
Respond(st, request, routeIdx, call) ==
  IF call.threw
    THEN CatchDo(st, request, routeIdx, Error("handler failed", call.method), <<call>>)
    ELSE Outcome(st, request, routeIdx, FALSE, NoError,
                 createResponse(request, "", Obj(<<>>), ResultOf(call)),
                 wrapResponse(request, createResponse(request, "", Obj(<<>>), ResultOf(call))),
                 <<call>>)

\* the arguments are bound: call the handler
CallHandler(b, controllerInstance, route, request, routeIdx) ==
  Respond(b.st, request, routeIdx, Call(controllerInstance, route.handler, b.args))

\* the context bundle App.do hands to the binder
WebContext(event, route, request, body) ==
  [event |-> event,
   query |-> GetProp(event, kParameter),
   params |-> extractPathParams(route.path, request.pathname),
   request |-> RequestValue(request),
   headers |-> Obj(<<>>),
   body |-> body,
   response |-> Undefined]

\* the body is parsed: bind the arguments
BindHandler(parsed, controllerInstance, route, request, routeIdx, event, ver) ==
  CallHandler(buildMethodParams(parsed.st, controllerInstance, route.handler,
                                WebContext(event, route, request, parsed.body), ver),
              controllerInstance, route, request, routeIdx)

\* the controller is resolved, or resolve threw
WithController(r, route, request, routeIdx, event, ver) ==
  IF ~r.ok THEN CatchDo(r.st, request, routeIdx, r.err, <<>>)
  ELSE BindHandler(ParseBody(r.st, event), r.val, route, request, routeIdx, event, ver)

\* the steps of App.do after a route was found
Dispatch(st, routes, request, routeIdx, event, ver) ==
  WithController(resolve(st, routes[routeIdx].controller, 1, ver),
                 routes[routeIdx], request, routeIdx, event, ver)

\* a dispatcher that resolves the first routed controller before it looks
\* at the result of the lookup
RoutedEager(st, routes, request, routeIdx, event, ver) ==
  IF routeIdx = 0
    THEN NotFound(IF routes = <<>> THEN st
                  ELSE resolve(st, routes[1].controller, 1, ver).st, request)
  ELSE Dispatch(st, routes, request, routeIdx, event, ver)

\* the route lookup is done: answer 404 or dispatch
Routed(st, routes, request, routeIdx, event, ver) ==
  IF routeIdx = 0 THEN NotFound(st, request)
  ELSE Dispatch(st, routes, request, routeIdx, event, ver)

\* the try block of App.do, entered with the request createRequest built
Handle(st, routes, request, event, ver) ==
  IF request.pathname # <<>> /\ ~decodeURI(request.pathname).ok
    THEN CatchDo(st, request, 0,
                 [name |-> "URIError", msg |-> "URI malformed", about |-> ""], <<>>)
  ELSE Routed(st, routes, request,
              IF request.pathname # <<>>
                THEN FindRoute(routes, request, decodeURI(request.pathname).s)
                ELSE 0,
              event, ver)

\* App.do(method, event)
do(st, routes, method, event, ver) ==
  Handle(st, routes, createRequest(method, event), event, ver)

\* ------------------------------------------------------------------------
\* App.on
\* ------------------------------------------------------------------------

\* a walk that lists the names of the parent classes first
RECURSIVE MethodNamesParentsFirst(_, _)
MethodNamesParentsFirst(chain, i) ==
  IF i > Len(chain) THEN <<>>
  ELSE MethodNamesParentsFirst(chain, i + 1) \o OwnMethodNames(chain[i])

\* the method names collected along the prototype chain, own names first
RECURSIVE MethodNamesFrom(_, _)
MethodNamesFrom(chain, i) ==
  IF i > Len(chain) THEN <<>>
  ELSE OwnMethodNames(chain[i]) \o MethodNamesFrom(chain, i + 1)

isAppsScriptController(c) ==
  ControllerType(c) \in {"appsscript:doc", "appsscript:form", "appsscript:sheet",
                         "appsscript:slide"}

\* the try block around one handler call
Invoke(o, call) ==
  IF call.threw
    THEN [o EXCEPT !.st = Log(@, "error", call.method), !.calls = Append(@, call)]
    ELSE [o EXCEPT !.calls = Append(@, call)]

RECURSIVE OnMethods(_, _, _, _, _, _, _)

\* the arguments are bound: call the handler inside its try block, then go
\* on with the next method name
InvokeNext(o, b, controllerInstance, methodNames, j, eventType, event, ver) ==
  OnMethods(Invoke([o EXCEPT !.st = b.st],
                   Call(controllerInstance, methodNames[j], b.args)),
            controllerInstance, methodNames, j + 1, eventType, event, ver)

\* prototype[methodName], with the metadata defined on that function
MethodFunction(controllerInstance, methodName) ==
  OwnMethod(MethodOwner(controllerInstance.cls, methodName), methodName)

OnMethods(o, controllerInstance, methodNames, j, eventType, event, ver) ==
  IF j > Len(methodNames) THEN o
  ELSE IF MethodFunction(controllerInstance, methodNames[j]).evt.event # eventType
    THEN OnMethods(o, controllerInstance, methodNames, j + 1, eventType, event, ver)
  ELSE IF ~checkEventFilters(eventType, event,
                             MethodFunction(controllerInstance, methodNames[j]).evt)
    THEN OnMethods(o, controllerInstance, methodNames, j + 1, eventType, event, ver)
  ELSE InvokeNext(o, buildMethodParams(o.st, controllerInstance, methodNames[j],
                                       EventOnly(event), ver),
                  controllerInstance, methodNames, j, eventType, event, ver)

RECURSIVE OnControllers(_, _, _, _, _)

\* the controller is resolved, or resolve threw out of App.on
WithEventController(o, r, i, eventType, event, ver) ==
  IF ~r.ok THEN [o EXCEPT !.st = r.st, !.raised = TRUE, !.err = r.err]
  ELSE OnControllers(
         OnMethods([o EXCEPT !.st = r.st], r.val,
                   MethodNamesFrom(ProtoChain(r.val.cls), 1), 1, eventType, event, ver),
         i + 1, eventType, event, ver)

OnControllers(o, i, eventType, event, ver) ==
  IF i > Len(o.st.controllers) THEN o
  ELSE IF ~isAppsScriptController(o.st.controllers[i][1])
    THEN OnControllers(o, i + 1, eventType, event, ver)
  ELSE WithEventController(o, resolve(o.st, o.st.controllers[i][1], 1, ver),
                           i, eventType, event, ver)

NoRequest ==
  [headers |-> Obj(<<>>), method |-> <<>>, pathname |-> <<>>, query |-> Obj(<<>>),
   body |-> Null]

\* App.on(eventType, event)
on(st, eventType, event, ver) ==
  OnControllers(Outcome(st, NoRequest, 0, FALSE, NoError, NoResponse, NoOutput, <<>>),
                1, eventType, event, ver)

\* ------------------------------------------------------------------------
\* Events the platform delivers
\* ------------------------------------------------------------------------

Field(k, present, v) == IF present THEN << <<k, v>> >> ELSE <<>>

NoPost == [has |-> FALSE, type |-> <<>>, contents |-> <<>>]

Post(type, contents) == [has |-> TRUE, type |-> type, contents |-> contents]

\* a DoGet / DoPost event object
WebEvent(pathInfo, methodParam, headersText, post) ==
  Obj( Field(kPathInfo, pathInfo # <<>>, Text(pathInfo))
       \o << <<kParameter,
               Obj( Field(kMethod, methodParam # <<>>, Text(methodParam))
                    \o Field(kHeaders, headersText # <<>>, Text(headersText)) )>> >>
       \o Field(kPostData, post.has,
                Obj(<< <<kContents, Text(post.contents)>>, <<kType, Text(post.type)>> >>)) )

SamplePaths ==
  { <<"/","u">>, <<"/","u","/","m">>, <<"/","u","/","b","/","x">>,
    <<"u","/","/","7","/">>, <<"/","a","p","i","/","i">>,
    <<"/","a","p","i","/","i","/","a","%","2","0","b">>,
    <<"/","k">>, <<"/","g">>, <<"/","c">>, <<"/","z","z">>,
    <<"/","u","/","%","4","1">>, <<"/","u","/","%">>, <<>>,
    <<"/","a","p","i","/","i","/","h">>, <<"/","a","p","i","/","i","/","j">> }

AcceptJson == <<"{\"Accept\":\"application/json\"}">>

AcceptLower == <<"{\"accept\":\"google/json\"}">>

GetEvents ==
  {WebEvent(p, <<>>, <<>>, NoPost) : p \in SamplePaths}
  \cup {WebEvent(<<"/","u">>, m, h, NoPost) :
          m \in {<<"P","O","S","T">>, <<"b","o","g","u","s">>},
          h \in {<<>>, AcceptJson, <<"{bad">>}}
  \cup {WebEvent(<<"/","a","p","i","/","i","/","h">>, <<>>, h, NoPost) :
          h \in {AcceptJson, AcceptLower}}
  \cup {WebEvent(<<"/","a","p","i","/","i","/","h">>, <<"H","E","A","D">>, <<>>, NoPost)}

PostEvents ==
  {WebEvent(p, <<>>, <<>>, Post(t, c)) :
     p \in {<<"/","u">>, <<"/","a","p","i","/","i">>, <<"/","z","z">>},
     t \in {<<"application/json">>, <<"text/plain">>},
     c \in {<<"{\"name\":\"Ann\"}">>, <<"{\"x\":1}">>, <<"oops">>}}
  \cup {WebEvent(<<"/","u">>, <<"g","e","t">>, AcceptJson, Post(<<"text/plain">>, <<"oops">>)),
        WebEvent(<<"/","u">>, <<>>, <<>>, NoPost),
        WebEvent(<<"/","a","p","i","/","i">>, <<"p","u","t">>, <<>>,
                 Post(<<"application/json">>, <<"{\"x\":1}">>)),
        WebEvent(<<"/","a","p","i","/","i","/","h">>, <<"h","e","a","d">>, <<>>,
                 Post(<<"application/json">>, <<"{\"x\":1}">>))}

\* a trigger event: the fields the filters read
TriggerEvent(range, formId, changeType) ==
  Obj( Field(kRange, range # <<>>, Text(range))
       \o Field(kSource, formId # <<>>, Text(formId))
       \o Field(kChangeType, changeType # <<>>, Text(changeType)) )

EditEvents ==
  {TriggerEvent(r, <<>>, <<>>) :
     r \in {<<"A","1",":","C","3">>, <<"B","2">>, <<"C","3">>, <<>>}}

ChangeEvents == {TriggerEvent(<<>>, <<>>, t) : t \in {<<"E">>, <<"O">>, <<>>}}

PlainEvent == TriggerEvent(<<>>, <<>>, <<>>)

\* ------------------------------------------------------------------------
\* The process: one App, its caches and route table, and the last call
\* ------------------------------------------------------------------------

VARIABLES
  instance,     \* App.instance: the identity of the one App, 0 for null
  controllers,  \* App._controllers
  providers,    \* App._providers
  routes,       \* App._routes
  nextId,       \* identity of the next object a constructor returns
  constructed,  \* the classes constructed so far, in order
  ver,          \* which of the repository's two resolve functions is linked
  last,         \* the last entry-function call and its outcome
  ops           \* entry-function calls made so far

vars == <<reflect, instance, controllers, providers, routes, nextId, constructed, ver, last, ops>>

St ==
  [controllers |-> controllers, providers |-> providers, nextId |-> nextId,
   constructed |-> constructed, console |-> <<>>]

NoOutcome == Outcome(St, NoRequest, 0, FALSE, NoError, NoResponse, NoOutput, <<>>)

Record(op, eventType, event, target, out, r) ==
  [op |-> op, eventType |-> eventType, event |-> event, target |-> target,
   request |-> out.request, routeIdx |-> out.routeIdx, raised |-> out.raised,
   err |-> out.err, response |-> out.response, output |-> out.output,
   calls |-> out.calls, console |-> out.st.console,
   resolved |-> r.val, failed |-> r.failed, args |-> <<>>, passed |-> FALSE,
   before |-> [controllers |-> controllers, providers |-> providers,
               constructed |-> constructed]]

Commit(st) ==
  /\ controllers' = st.controllers
  /\ providers' = st.providers
  /\ nextId' = st.nextId
  /\ constructed' = st.constructed
  /\ ops' = ops + 1
  /\ UNCHANGED <<reflect, instance, routes, ver>>

\* no App was constructed yet: App.instance is null
NoApp == [instance |-> 0, controllers |-> <<>>, routes |-> <<>>, providers |-> <<>>]

\* a constructor without the singleton guard
NewAppAgain(app, config, id) ==
  [instance |-> id,
   controllers |-> RegisterControllers(config.controllers, 1, <<>>),
   routes |-> explore(RegisterControllers(config.controllers, 1, <<>>)),
   providers |-> RegisterProviders(config.providers, 1, <<>>)]

\* new App(config), where app is what App.instance holds and id the identity
\* of the object the call allocated: the value the expression yields
NewApp(app, config, id) ==
  IF app.instance # 0 THEN app
  ELSE [instance |-> id,
        controllers |-> RegisterControllers(config.controllers, 1, <<>>),
        routes |-> explore(RegisterControllers(config.controllers, 1, <<>>)),
        providers |-> RegisterProviders(config.providers, 1, <<>>)]

\* new App(config), the first construction in the process
Init ==
  \E config \in Configs :
    /\ reflect = ClassTable
    /\ instance = NewApp(NoApp, config, 1).instance
    /\ controllers = NewApp(NoApp, config, 1).controllers
    /\ routes = NewApp(NoApp, config, 1).routes
    /\ providers = NewApp(NoApp, config, 1).providers
    /\ nextId = 1
    /\ constructed = <<>>
    /\ ver \in {"map", "loop"}
    /\ ops = 0
    /\ last = [op |-> "create", eventType |-> "", event |-> PlainEvent, target |-> "",
               request |-> NoRequest, routeIdx |-> 0, raised |-> FALSE, err |-> NoError,
               response |-> NoResponse, output |-> NoOutput, calls |-> <<>>,
               console |-> <<>>, resolved |-> Undefined, failed |-> {},
               args |-> <<config>>, passed |-> FALSE,
               before |-> [controllers |-> <<>>, providers |-> <<>>, constructed |-> <<>>]]

\* the call returned: remember it and keep what it did to the caches
Done(op, eventType, event, out) ==
  /\ last' = Record(op, eventType, event, "", out, Returned(St, Undefined))
  /\ Commit(out.st)

Web(op, method, event) ==
  /\ ops < MaxOps
  /\ Done(op, "", event, do(St, routes, method, event, ver))

DoGet == \E event \in GetEvents : Web("doGet", GET, event)

DoPost == \E event \in PostEvents : Web("doPost", POST, event)

Trigger(op, eventType, event) ==
  /\ ops < MaxOps
  /\ Done(op, eventType, event, on(St, eventType, event, ver))

OnInstall == Trigger("onInstall", "INSTALL", PlainEvent)

OnOpen == Trigger("onOpen", "OPEN", PlainEvent)

OnEdit == \E event \in EditEvents : Trigger("onEdit", "EDIT", event)

OnChange == \E event \in ChangeEvents : Trigger("onChange", "CHANGE", event)

OnSelectionChange == Trigger("onSelectionChange", "SELECTION_CHANGE", PlainEvent)

OnFormSubmit == Trigger("onFormSubmit", "FORM_SUBMIT", PlainEvent)

\* resolve returned or threw: remember it and keep what it did to the caches
Resolved(target, r) ==
  /\ last' = Record("resolve", "", PlainEvent, target,
                    [NoOutcome EXCEPT !.st = r.st, !.raised = ~r.ok, !.err = r.err], r)
  /\ Commit(r.st)

\* a direct call of the exported resolve on the App's caches
Resolve ==
  \E target \in ClassNames :
    /\ ops < MaxOps
    /\ Resolved(target, resolve(St, target, 1, ver))

\* the argument lists handed to @Edit(...)
EditArgs ==
  { <<>>,
    <<RegExpPrefix(<<"A","1">>)>>,
    <<RegExpPrefix(<<"B">>)>>,
    <<Lit(<<"B","2">>)>>,
    <<Lit(<<"A","1">>)>>,
    <<Lit(<<>>)>>,
    <<Lit(<<"B","2">>), Lit(<<"C","3">>)>>,
    <<List(<< <<"A","1",":","C","3">>, <<"B","2">> >>)>>,
    <<List(<<>>)>> }

\* a direct call of the exported checkEventFilters with the options an
\* @Edit(...) decorator stored; it reads nothing of the App, so it is made
\* as the first call only
Filter ==
  \E args \in EditArgs, event \in EditEvents :
    /\ ops = 0
    /\ last' = [Record("checkEventFilters", "EDIT", event, "", NoOutcome,
                        Returned(St, Undefined))
                 EXCEPT !.args = args,
                        !.passed = checkEventFilters("EDIT", event, Edit(args))]
    /\ Commit(St)

\* the constructor returned: App.instance and the App's fields are the
\* returned object's
Created(config, app) ==
  /\ instance' = app.instance
  /\ controllers' = app.controllers
  /\ routes' = app.routes
  /\ providers' = app.providers
  /\ last' = [Record("create", "", PlainEvent, "", NoOutcome, Returned(St, Num(app.instance)))
               EXCEPT !.args = <<config>>]
  /\ ops' = ops + 1
  /\ UNCHANGED <<reflect, nextId, constructed, ver>>

\* a later App.create(config) or new App(config)
Create ==
  \E config \in Configs :
    /\ ops < MaxOps
    /\ Created(config,
               NewApp([instance |-> instance, controllers |-> controllers,
                       routes |-> routes, providers |-> providers],
                      config, instance + 1))

Next ==
  \/ Create
  \/ Filter
  \/ DoGet
  \/ DoPost
  \/ OnInstall
  \/ OnOpen
  \/ OnEdit
  \/ OnChange
  \/ OnSelectionChange
  \/ OnFormSubmit
  \/ Resolve

Spec == Init /\ [][Next]_vars

\* ------------------------------------------------------------------------
\* The exported functions called on their own
\* ------------------------------------------------------------------------

\* route templates as decorators and base paths produce them
Templates ==
  { <<"/","a","/","b">>, <<"/","u","s","e","r","s","/","{","i","d","}">>,
    <<"/","{","x","}","/","b">>, <<"/","A","/","b">>, <<"/">>, <<"a","/","/","b","/">>,
    <<"/","{","}","/","{","y","}">>, <<"/","{","a","/","b">>,
    <<"/","a","}","/","{","b","}">>,
    <<"/","u","s","e","r","s","/","{","i","d","}","/","p","o","s","t","s","/","{","p","o","s","t","}">> }

\* request paths
ActualPaths ==
  { <<"/","a","/","b">>, <<"/","a","/","c">>, <<"/","u","s","e","r","s","/","4","2">>,
    <<"/","u","s","e","r","s","/","4","2","/","e","x","t","r","a">>,
    <<"/","u","s","e","r","s">>, <<"/","A","/","b">>, <<"/">>,
    <<"/","/","a","/","b","/">>, <<"/","a","/","B">>, <<"/","{","a","/","b">>,
    <<"/","u","s","e","r","s","/","7","/","p","o","s","t","s","/","9">>,
    <<"a","}","/","x">> }

\* an App that was created and a call that is about to be made
Input(target, args) ==
  /\ reflect = LibraryTable
  /\ instance = 0
  /\ controllers = <<>>
  /\ routes = <<>>
  /\ providers = <<>>
  /\ nextId = 1
  /\ constructed = <<>>
  /\ ver = "map"
  /\ ops = 0
  /\ last = [op |-> "input", eventType |-> "", event |-> PlainEvent, target |-> target,
             request |-> NoRequest, routeIdx |-> 0, raised |-> FALSE, err |-> NoError,
             response |-> NoResponse, output |-> NoOutput, calls |-> <<>>,
             console |-> <<>>, resolved |-> Undefined, failed |-> {},
             args |-> args, passed |-> FALSE,
             before |-> [controllers |-> <<>>, providers |-> <<>>, constructed |-> <<>>]]

\* the header maps createRequest can parse from an event
HeaderMaps ==
  { Obj(<<>>),
    Obj(<< <<toLowerCase(kAccept), Text(<<"google/json">>)>> >>) }
  \cup { Obj(<< <<kAccept, Text(<<a>>)>> >>) :
           a \in {"google/json", "google/plain", "application/json", "text/plain",
                  "text/html", "image/png", "*/*"} }

\* normalized request paths inside and outside the /api/ prefix
Pathnames ==
  { <<"/","a","p","i","/","i">>, <<"/","u">>, <<"/","a","p","i">>,
    <<"/","a","p","i","x","/","y">>, <<"/">> }

Requests ==
  { [headers |-> h, method |-> GET, pathname |-> p, query |-> Obj(<<>>), body |-> Null] :
      h \in HeaderMaps, p \in Pathnames }

\* controller lists of a configuration: any classes, repeats included
Explorable == RouteClasses \cup {"Users", "SheetB"}

ControllerLists ==
  {<<>>} \cup {<<a>> : a \in Explorable} \cup {<<a, b>> : a, b \in Explorable}
  \cup { <<"HeirHttp", "SheetWeb", "ChildHttp", "BaseHttp">>,
         <<"EmptyBase", "Typeless", "EmptyBase", "Bare", "Users">> }

\* createParamDecorator(type)(key)(target, propertyKey, parameterIndex) on
\* the parameter definitions of a class, one object per property key
createParamDecorator(store, type, key, propertyKey, parameterIndex) ==
  LET existing == IF propertyKey \in DOMAIN store THEN store[propertyKey] ELSE <<>>
      updated == assignMetadata(existing, parameterIndex, type, key)
  IN [k \in DOMAIN store \cup {propertyKey} |->
        IF k = propertyKey THEN updated ELSE store[k]]

\* a parameter decorator as it is applied: where, and with which arguments
ParamWrites ==
  [propertyKey : {"methodA", "methodB"}, type : {"param", "query"},
   key : {<<"a">>, <<"b">>}, index : {0, 1}]

MaxWrites == 3

WriteLists == UNION {[1..n -> ParamWrites] : n \in 1..MaxWrites}

RECURSIVE Decorate(_, _, _)
Decorate(store, writes, i) ==
  IF i > Len(writes) THEN store
  ELSE Decorate(createParamDecorator(store, writes[i].type, writes[i].key,
                                     writes[i].propertyKey, writes[i].index),
                writes, i + 1)

\* values of event.parameter.method, the empty sequence for none
MethodParams ==
  RequestMethod
  \cup { <<"G","E","T">>, <<"P","O","S","T">>, <<"D","e","l","e","t","e">>,
         <<"H","E","A","D">>, <<"P","a","t","c","h">>, <<"b","o","g","u","s">>,
         <<"t","r","a","c","e">>, <<"g","e","t","s">>, <<>> }

\* events handed to createRequest by doGet and doPost
RequestEvents ==
  { WebEvent(p, m, <<>>, post) :
      p \in {<<"/","u">>, <<>>}, m \in MethodParams,
      post \in {NoPost, Post(<<"text/plain">>, <<"h","i">>),
                Post(<<"application/json">>, <<"{\"x\":1}">>)} }

\* the containers buildMethodParams resolves from: Repo is a provider
BinderState ==
  [controllers |-> RegisterControllers(<<"Gappy">>, 1, <<>>),
   providers |-> RegisterProviders(<<"Repo">>, 1, <<>>),
   nextId |-> 1, constructed |-> <<>>, console |-> <<>>]

\* the contexts App.do can build for a handler
Contexts ==
  { [event |-> WebEvent(<<"/","g","a","p">>, <<>>, <<>>, NoPost),
     params |-> params, query |-> query, body |-> body,
     request |-> Undefined, headers |-> Obj(<<>>), response |-> Undefined] :
      params \in {Obj(<<>>), Obj(<< <<<<"i">>, Text(<<"7">>)>> >>)},
      query \in {Obj(<<>>), Obj(<< <<<<"q">>, Text(<<"z">>)>> >>)},
      body \in {Null, Text(<<"h","i">>), Obj(<< <<kX, Num(1)>> >>)} }

\* the exported HTTP method decorators and the verb each was created with
HttpDecorators ==
  << <<"Post", POST>>, <<"Get", GET>>, <<"Delete", DELETE>>, <<"Put", PUT>>,
     <<"Patch", PATCH>>, <<"Options", OPTIONS>>, <<"Head", HEAD>>,
     <<"PostMapping", POST>>, <<"GetMapping", GET>>, <<"DeleteMapping", DELETE>>,
     <<"PutMapping", PUT>>, <<"PatchMapping", PATCH>>, <<"OptionsMapping", OPTIONS>>,
     <<"HeadMapping", HEAD>> >>

\* the path arguments a decorator is written with
PathArguments ==
  {Undefined, Text(<<>>), Text(<<"/">>), Text(<<"/","x">>), Text(<<"x">>),
   Text(<<"/","{","i","d","}","/">>)}

\* the methods of a class body: one gets decorated
MethodKeys == {"first", "second"}

\* @Decorator(path) on the method key: defineMetadata on descriptor.value only
ApplyHttpDecorator(decorator, path, key) ==
  [k \in MethodKeys |->
     IF k = key
       THEN createHttpDecorator(MapGet(HttpDecorators, decorator),
                                IF isString(path) THEN path.s ELSE <<>>)
       ELSE NoHttp]

InitFn ==
  \/ \E template \in Templates, actual \in ActualPaths :
       Input("path", <<template, actual>>)
  \/ \E i \in 1..Len(HttpDecorators), path \in PathArguments, key \in MethodKeys :
       Input("method", <<HttpDecorators[i][1], path, key>>)
  \/ \E i \in 1..Len(LibraryTable["Gappy"].methods), ctx \in Contexts :
       Input("handler", <<LibraryTable["Gappy"].methods[i].name, ctx>>)
  \/ \E methodRequest \in {GET, POST}, event \in RequestEvents :
       Input("event", <<methodRequest, event>>)
  \/ \E writes \in WriteLists : Input("parameters", <<writes>>)
  \/ \E list \in ControllerLists : Input("controllers", <<list>>)
  \/ \E request \in Requests, status \in {"", "NOT_FOUND"},
        data \in {Null, Text(<<"h","i">>)} :
       Input("response", <<request, createResponse(request, status, Obj(<<>>), data)>>)

\* the call returned
Returns ==
  /\ last.op = "input"
  /\ ops' = ops + 1
  /\ UNCHANGED <<reflect, instance, controllers, providers, routes, nextId, constructed, ver>>

CallPathMatch ==
  /\ last.target = "path"
  /\ last' = [last EXCEPT !.op = "pathMatch",
                          !.passed = pathMatch(last.args[1], last.args[2])]
  /\ Returns

CallExtractPathParams ==
  /\ last.target = "path"
  /\ last' = [last EXCEPT !.op = "extractPathParams",
                          !.resolved = extractPathParams(last.args[1], last.args[2])]
  /\ Returns

CallWrapResponse ==
  /\ last.target = "response"
  /\ last' = [last EXCEPT !.op = "wrapResponse",
                          !.request = last.args[1],
                          !.response = last.args[2],
                          !.output = wrapResponse(last.args[1], last.args[2])]
  /\ Returns

\* RouterExplorer.explore on the registry the constructor fills from a list
CallExplore ==
  /\ last.target = "controllers"
  /\ last' = [last EXCEPT !.op = "explore",
                          !.resolved = explore(RegisterControllers(last.args[1], 1, <<>>))]
  /\ Returns

\* the parameter decorators of a class body ran, in the given order
CallParamDecorators ==
  /\ last.target = "parameters"
  /\ last' = [last EXCEPT !.op = "decorate",
                          !.resolved = Decorate(<<>>, last.args[1], 1)]
  /\ Returns

CallCreateRequest ==
  /\ last.target = "event"
  /\ last' = [last EXCEPT !.op = "createRequest",
                          !.event = last.args[2],
                          !.request = createRequest(last.args[1], last.args[2])]
  /\ Returns

CallBuildMethodParams ==
  /\ last.target = "handler"
  /\ last' = [last EXCEPT !.op = "buildMethodParams",
                          !.resolved = buildMethodParams(BinderState, Instance("Gappy", 0, <<>>),
                                                         last.args[1], last.args[2], ver).args]
  /\ Returns

CallHttpDecorator ==
  /\ last.target = "method"
  /\ last' = [last EXCEPT !.op = "httpDecorator",
                          !.resolved = ApplyHttpDecorator(last.args[1], last.args[2],
                                                          last.args[3])]
  /\ Returns

NextFn ==
  \/ CallBuildMethodParams
  \/ CallHttpDecorator
  \/ CallCreateRequest
  \/ CallExplore
  \/ CallParamDecorators
  \/ CallPathMatch
  \/ CallExtractPathParams
  \/ CallWrapResponse

SpecFn == InitFn /\ [][NextFn]_vars

\* ------------------------------------------------------------------------
\* Properties of web dispatch
\* ------------------------------------------------------------------------

IsWeb == last.op \in {"doGet", "doPost"}

\* the path the route lookup compares: decodeURI(request.url.pathname)
Decoded == decodeURI(last.request.pathname)

\* the records that have the request's verb and match the decoded path
Matching ==
  {i \in 1..Len(routes) :
     /\ routes[i].method = last.request.method
     /\ pathMatch(routes[i].path, Decoded.s)}

\* C1: App.do selects a route record if and only if some record of the table
\* has the request's effective verb and a template that matches the
\* (percent-decoded) request path; when there is no such record, or the path
\* cannot be decoded, it selects none.
C1_RouteSelectedIffMatch ==
  IsWeb => ((last.routeIdx # 0) <=> (Decoded.ok /\ Matching # {}))

\* a route was selected while another record with a matching template and a
\* different verb sits earlier in the table
C1_Witness ==
  /\ IsWeb
  /\ last.routeIdx # 0
  /\ \E i \in 1..Len(routes) :
       /\ i < last.routeIdx
       /\ pathMatch(routes[i].path, Decoded.s)
       /\ routes[i].method # last.request.method

\* position of a class among the registered controllers
ControllerPos(c) == CHOOSE i \in 1..Len(controllers) : controllers[i][1] = c

\* position of a method among the own methods of its class
MethodPos(c, name) ==
  CHOOSE i \in 1..Len(ClassDef(c).methods) : ClassDef(c).methods[i].name = name

\* the route table follows registration order, then method enumeration order
RouteTableOrder ==
  \A i, j \in 1..Len(routes) :
    i < j =>
      \/ ControllerPos(routes[i].controller) < ControllerPos(routes[j].controller)
      \/ /\ routes[i].controller = routes[j].controller
         /\ MethodPos(routes[i].controller, routes[i].handler)
              < MethodPos(routes[j].controller, routes[j].handler)

\* C2: when several records have the request's verb and match the path, the
\* handler App.do invokes is that of the earliest such record in route-table
\* order (registration order, then method enumeration order); no later
\* record is preferred.
C2_FirstMatchWins ==
  /\ RouteTableOrder
  /\ (IsWeb /\ last.routeIdx # 0) =>
       /\ last.routeIdx \in Matching
       /\ \A j \in Matching : last.routeIdx <= j
       /\ \A k \in 1..Len(last.calls) :
            /\ last.calls[k].cls = routes[last.routeIdx].controller
            /\ last.calls[k].method = routes[last.routeIdx].handler

\* two records match, the more specific one later, and the earlier one ran
C2_Witness ==
  /\ IsWeb
  /\ \E j \in Matching : j > last.routeIdx /\ last.routeIdx # 0
  /\ Len(last.calls) = 1
  /\ last.calls[1].method = routes[last.routeIdx].handler

\* no record has the request's verb and matches its path
NoRouteMatches == IsWeb /\ Decoded.ok /\ Matching = {}

\* C3 as stated: with no matching route App.do answers 404 with an empty
\* body, raises nothing and invokes no handler.
C3_NotFoundEmptyBody ==
  NoRouteMatches =>
    /\ last.response.status = 404
    /\ last.response.body \in {Null, Undefined, Text(<<>>), Obj(<<>>)}
    /\ ~last.raised
    /\ last.calls = <<>>

\* C3: with no matching route App.do answers 404 with the error wrapper
\* { error: null } as body, raises nothing and invokes no handler.
C3_NotFoundErrorWrapper ==
  NoRouteMatches =>
    /\ last.response.status = 404
    /\ ~last.response.ok
    /\ last.response.body = Obj(<< <<kError, Null>> >>)
    /\ ~last.raised
    /\ last.calls = <<>>

\* a request for a path no record matches, on an App that has routes
C3_Witness ==
  /\ NoRouteMatches
  /\ Len(routes) > 0
  /\ last.response.status = 404

\* the steps of App.do that can throw once the request exists
DecodeThrows == IsWeb /\ ~Decoded.ok

ResolveThrows == IsWeb /\ last.routeIdx # 0 /\ last.calls = <<>>

HandlerThrows == IsWeb /\ \E k \in 1..Len(last.calls) : last.calls[k].threw

\* C4: an exception raised in App.do after the request is constructed becomes
\* a response with status 500 that carries String(error); no exception
\* leaves App.do.
C4_ErrorsBecome500 ==
  IsWeb =>
    /\ ~last.raised
    /\ (DecodeThrows \/ ResolveThrows \/ HandlerThrows) =>
         /\ last.err # NoError
         /\ last.response.status = 500
         /\ last.response.body = Obj(<< <<kError, StringOf(last.err)>> >>)
         /\ last.output.kind # ""

\* a handler threw and the client got a 500
C4_Witness ==
  /\ HandlerThrows
  /\ last.response.status = 500
  /\ ~last.raised

\* a controller that cannot be resolved yields a 500 as well
C4_WitnessResolve == ResolveThrows /\ last.response.status = 500

\* ------------------------------------------------------------------------
\* Properties of the resolver
\* ------------------------------------------------------------------------

\* how often a class was constructed in this process
Built(c) == Cardinality({i \in 1..Len(constructed) : constructed[i] = c})

\* C5: over any sequence of resolve calls and dispatches on one App, every
\* class is constructed at most once, and a resolve of a class that was
\* constructed before returns that earlier instance.
C5_ConstructedAtMostOnce ==
  /\ \A c \in ClassNames : Built(c) <= 1
  /\ (last.op = "resolve" /\ ~last.raised
        /\ \E i \in 1..Len(last.before.constructed) :
             last.before.constructed[i] = last.target)
       => last.resolved.id < Len(last.before.constructed) + 1

\* a dependency slot the reflection filled with no class
RECURSIVE ChainBroken(_, _)
ChainBroken(c, n) ==
  /\ n > 0
  /\ \E i \in 1..Len(DesignParamTypes(c)) :
       \/ TokenAt(c, i) = UndefinedToken
       \/ /\ TokenAt(c, i) # c
          /\ ChainBroken(TokenAt(c, i), n - 1)

\* an instance of c sits in one of the two caches
HasInstance(c) ==
  \/ HasKey(controllers, c) /\ MapGet(controllers, c) # Null
  \/ HasKey(providers, c) /\ MapGet(providers, c) # Null

\* C6: when resolving a class fails because a constructor dependency in its
\* chain cannot be resolved, resolve raises, and neither the class nor any
\* class whose construction failed with it has an instance in the controller
\* cache or in the provider cache afterwards.
C6_FailedResolveNotCached ==
  last.op = "resolve" =>
    /\ ChainBroken(last.target, Cardinality(ClassNames)) => last.raised
    /\ last.raised =>
         /\ last.target \in last.failed
         /\ \A c \in last.failed : ~HasInstance(c)

\* resolve(Deep) failed at Mid, two levels down, after Repo was built
C6_Witness ==
  /\ last.op = "resolve"
  /\ last.raised
  /\ last.target = "Deep"
  /\ last.failed = {"Mid", "Deep"}
  /\ HasInstance("Repo")
  /\ ~HasInstance("Deep")

\* ------------------------------------------------------------------------
\* Properties of event dispatch
\* ------------------------------------------------------------------------

IsOn ==
  last.op \in {"onInstall", "onOpen", "onEdit", "onChange", "onSelectionChange",
               "onFormSubmit"}

\* the registered controllers flagged as event-style
EventControllers ==
  {controllers[i][1] : i \in {j \in 1..Len(controllers) :
                                isAppsScriptController(controllers[j][1])}}

\* own and inherited method names of a class
ChainMethods(c) ==
  {MethodNamesFrom(ProtoChain(c), 1)[i] : i \in 1..Len(MethodNamesFrom(ProtoChain(c), 1))}

\* the handlers the last event is addressed to
Addressed ==
  {cm \in UNION {{<<c, m>> : m \in ChainMethods(c)} : c \in EventControllers} :
     LET f == OwnMethod(MethodOwner(cm[1], cm[2]), cm[2])
     IN /\ f.evt.event = last.eventType
        /\ checkEventFilters(last.eventType, last.event, f.evt)}

\* the handlers the last call of App.on invoked
Invoked == {<<last.calls[k].cls, last.calls[k].method>> : k \in 1..Len(last.calls)}

\* C7: in App.on an exception thrown by one handler is caught and logged,
\* every other matching handler of the same and of later controllers is
\* still invoked, and App.on does not raise.
C7_HandlerFailureIsolated ==
  (IsOn /\ \E k \in 1..Len(last.calls) : last.calls[k].threw) =>
    /\ ~last.raised
    /\ \A k \in 1..Len(last.calls) :
         last.calls[k].threw =>
           \E n \in 1..Len(last.console) :
             last.console[n] = <<"error", last.calls[k].method>>
    /\ Addressed \subseteq Invoked

\* C8: App.on invokes a method for an event of kind K if and only if it is an
\* own or inherited method of a registered event-style controller, declares
\* kind K and its filter passes; its arguments are bound from a context that
\* holds the raw event only.
C8_InvokedIffAddressed ==
  IsOn =>
    /\ Invoked = Addressed
    /\ \A k \in 1..Len(last.calls) :
         last.calls[k].args =
           buildMethodParams(St, last.calls[k].instance, last.calls[k].method,
                             EventOnly(last.event), ver).args

\* ------------------------------------------------------------------------
\* Properties of the event filter and of the parameter binder
\* ------------------------------------------------------------------------

\* the literal ranges and the regular expressions an @Edit(...) declares
DeclaredLiterals(args) ==
  {FlattenStrings(args)[i] : i \in 1..Len(FlattenStrings(args))} \ {<<>>}

DeclaredPrefixes(args) ==
  IF Len(args) = 1 /\ args[1].k = "re" THEN {args[1].v} ELSE {}

\* the edited range of the last event in A1 notation, <<>> when it has none
EditedRange ==
  IF In(kRange, last.event) THEN GetProp(last.event, kRange).s ELSE <<>>

RangeAdmitted(args) ==
  \/ DeclaredLiterals(args) = {} /\ DeclaredPrefixes(args) = {}
  \/ /\ EditedRange # <<>>
     /\ \/ EditedRange \in DeclaredLiterals(args)
        \/ \E pre \in DeclaredPrefixes(args) : StartsWith(EditedRange, pre)

C9_WitnessDirect ==
  /\ last.op = "checkEventFilters"
  /\ last.args = <<RegExpPrefix(<<"A","1">>)>>
  /\ EditedRange = <<"B","2">>
  /\ ~last.passed

\* the BODY declarations of the handler that ran
BodyDeclarations(call) ==
  {d \in {ObjectValues(ParamDefinitions(call.cls, call.method))[i] :
            i \in 1..Len(ParamDefinitions(call.cls, call.method))} :
     d.type = "body"}

\* the body App.do handed to the binder for the last request
BoundBody == ParseBody(St, last.event).body

\* C10: a BODY parameter declared with key k and bound against a parsed
\* object body receives the body's field k; declared without a key, or bound
\* against a body that is not an object, it receives the whole body.
C10_BodyKeyOrWhole ==
  IsWeb =>
    \A n \in 1..Len(last.calls) :
      \A d \in BodyDeclarations(last.calls[n]) :
        LET got == last.calls[n].args[d.index + 1]
        IN /\ (d.key # NoKey /\ BoundBody.t = "object") => got = GetProp(BoundBody, d.key)
           /\ (d.key = NoKey \/ BoundBody.t # "object") => got = BoundBody

\* { "name": "Ann" } reached create(body, name) as the object and as "Ann"
C10_Witness ==
  /\ last.op = "doPost"
  /\ Len(last.calls) = 1
  /\ last.calls[1].method = "create"
  /\ last.calls[1].args =
       << Obj(<< <<kName, Text(<<"A","n","n">>)>> >>), Text(<<"A","n","n">>) >>

\* a raw text body reached the keyed parameter whole
C10_WitnessRaw ==
  /\ last.op = "doPost"
  /\ Len(last.calls) = 1
  /\ last.calls[1].method = "create"
  /\ last.calls[1].args = << Text(<<"oops">>), Text(<<"oops">>) >>

\* the postData of the last event: its text and its declared content type
PostContents == GetProp(GetProp(last.event, kPostData), kContents)

PostType == GetProp(GetProp(last.event, kPostData), kType)

PostedJson ==
  /\ last.op = "doPost"
  /\ In(kPostData, last.event)
  /\ PostType = Text(<<"application/json">>)
  /\ isString(PostContents)
  /\ JSONParse(PostContents.s).ok

\* C11: when a POST carries a body declared application/json that holds
\* valid JSON text, every BODY parameter of the handler that runs is bound
\* from the parsed value: one declared without a key receives the parsed
\* object itself, and none receives the raw text.
C11_JsonBodyParsed ==
  PostedJson =>
    \A n \in 1..Len(last.calls) :
      \A d \in BodyDeclarations(last.calls[n]) :
        LET got == last.calls[n].args[d.index + 1]
        IN /\ got # PostContents
           /\ d.key = NoKey => got = JSONParse(PostContents.s).val

\* {"x":1} posted to /api/i as application/json reached add(x, body) as 1
\* and as the object { x: 1 }
C11_Witness ==
  /\ PostedJson
  /\ last.request.pathname = <<"/","a","p","i","/","i">>
  /\ PostContents = Text(<<"{\"x\":1}">>)
  /\ Len(last.calls) = 1
  /\ last.calls[1].method = "add"
  /\ last.calls[1].args = << Num(1), Obj(<< <<kX, Num(1)>> >>) >>

\* ------------------------------------------------------------------------
\* Properties of the path functions
\* ------------------------------------------------------------------------

\* the positions where a segment starts: a character other than "/" that
\* opens the string or follows a "/"
SegmentStarts(s) == {i \in 1..Len(s) : s[i] # "/" /\ (i = 1 \/ s[i - 1] = "/")}

\* the segment that starts at i runs up to the next "/" or the end
SegmentAt(s, i) ==
  LET stops == {j \in i..Len(s) : j = Len(s) \/ s[j + 1] = "/"}
  IN SubSeq(s, i, CHOOSE j \in stops : \A k \in stops : j <= k)

\* the non-empty segments of s between "/", in order
Segments(s) ==
  [n \in 1..Cardinality(SegmentStarts(s)) |->
     SegmentAt(s, CHOOSE i \in SegmentStarts(s) :
                    Cardinality({k \in SegmentStarts(s) : k < i}) = n - 1)]

Wrapped(segment) == segment[1] = "{" /\ segment[Len(segment)] = "}" /\ Len(segment) >= 2

SegmentsAgree(template, actual) ==
  /\ Len(Segments(template)) = Len(Segments(actual))
  /\ \A i \in 1..Len(Segments(template)) :
       \/ Wrapped(Segments(template)[i])
       \/ Segments(template)[i] = Segments(actual)[i]

\* C12: pathMatch(template, path) is true exactly when the two strings have
\* the same number of non-empty "/"-separated segments and every template
\* segment is wrapped in { } or equals, case-sensitively, the path segment at
\* its position; /a/b does not match /a/c, and /users/{id} matches /users/42
\* but neither /users/42/extra nor /users.
C12_PathMatchIff ==
  last.op = "pathMatch" =>
    /\ last.passed <=> SegmentsAgree(last.args[1], last.args[2])
    /\ last.args = << <<"/","a","/","b">>, <<"/","a","/","c">> >> => ~last.passed
    /\ last.args = << <<"/","u","s","e","r","s","/","{","i","d","}">>, <<"/","u","s","e","r","s","/","4","2">> >> => last.passed
    /\ last.args = << <<"/","u","s","e","r","s","/","{","i","d","}">>, <<"/","u","s","e","r","s","/","4","2","/","e","x","t","r","a">> >> => ~last.passed
    /\ last.args = << <<"/","u","s","e","r","s","/","{","i","d","}">>, <<"/","u","s","e","r","s">> >> => ~last.passed

\* /users/{id} was matched against /users/42
C12_Witness ==
  /\ last.op = "pathMatch"
  /\ last.args = << <<"/","u","s","e","r","s","/","{","i","d","}">>, <<"/","u","s","e","r","s","/","4","2">> >>
  /\ last.passed

\* a path that differs from the template only in case was rejected
C12_WitnessCase ==
  /\ last.op = "pathMatch"
  /\ last.args = << <<"/","a","/","b">>, <<"/","a","/","B">> >>
  /\ ~last.passed

\* the name a wrapped segment declares: the text between its braces
NameOf(segment) == SubSeq(segment, 2, Len(segment) - 1)

\* C13: for a template and a path that match, extractPathParams returns a
\* map that holds, for each {name} segment of the template, the path segment
\* at the same position, and no other entry; /users/{id} against /users/42
\* yields { id: "42" }.
C13_ExtractedParams ==
  (last.op = "extractPathParams" /\ SegmentsAgree(last.args[1], last.args[2])) =>
    LET tpl == Segments(last.args[1])
        act == Segments(last.args[2])
    IN /\ \A i \in 1..Len(tpl) :
            Wrapped(tpl[i]) =>
              /\ In(NameOf(tpl[i]), last.resolved)
              /\ GetProp(last.resolved, NameOf(tpl[i])) = Text(act[i])
       /\ \A k \in 1..Len(last.resolved.f) :
            \E i \in 1..Len(tpl) :
              Wrapped(tpl[i]) /\ NameOf(tpl[i]) = last.resolved.f[k][1]
       /\ last.args = << <<"/","u","s","e","r","s","/","{","i","d","}">>, <<"/","u","s","e","r","s","/","4","2">> >> =>
            last.resolved = Obj(<< << <<"i","d">>, Text(<<"4","2">>) >> >>)

\* two names were extracted from /users/7/posts/9
C13_Witness ==
  /\ last.op = "extractPathParams"
  /\ last.args = << <<"/","u","s","e","r","s","/","{","i","d","}","/","p","o","s","t","s","/","{","p","o","s","t","}">>,
                    <<"/","u","s","e","r","s","/","7","/","p","o","s","t","s","/","9">> >>
  /\ last.resolved = Obj(<< << <<"i","d">>, Text(<<"7">>) >>,
                            << <<"p","o","s","t">>, Text(<<"9">>) >> >>)

\* ------------------------------------------------------------------------
\* Properties of resolve on classes without a marker
\* ------------------------------------------------------------------------

\* a class that is neither a recognized controller nor marked injectable
Unmarked(c) == c \in ClassNames /\ ~isController(c) /\ ~isInjectable(c)

\* the last call constructed c
ConstructedNow(c) ==
  \E i \in (Len(last.before.constructed) + 1)..Len(constructed) : constructed[i] = c

\* C14: when resolve constructs a class that is neither a recognized
\* controller nor marked injectable, it logs a warning, does not raise,
\* returns the instance and caches it, so that a later resolve of the same
\* class returns that same instance.
C14_UnmarkedInstanceCached ==
  (last.op = "resolve" /\ Unmarked(last.target)) =>
    /\ ConstructedNow(last.target) =>
         /\ \E i \in 1..Len(last.console) : last.console[i] = <<"warn", last.target>>
         /\ ~last.raised
         /\ last.resolved.t = "instance"
         /\ last.resolved.cls = last.target
         /\ HasInstance(last.target)
    /\ (~last.raised /\ \E i \in 1..Len(last.before.constructed) :
                          last.before.constructed[i] = last.target)
         => ~ConstructedNow(last.target)

\* ------------------------------------------------------------------------
\* Properties of dispatch when a controller cannot be resolved
\* ------------------------------------------------------------------------

\* resolving c on the App's caches raises
Unresolvable(c) == ~resolve(St, c, 1, ver).ok

\* C15: in App.on, when resolving a controller raises a resolution error,
\* the error is logged, that controller is skipped, the handlers of the
\* remaining registered controllers still run and App.on does not raise; in
\* App.do the same error yields a 500 response.
C15_ResolutionErrorIsolated ==
  /\ IsOn =>
       /\ ~last.raised
       /\ \A c \in EventControllers :
            Unresolvable(c) =>
              /\ \E n \in 1..Len(last.console) : last.console[n][1] = "error"
              /\ \A k \in 1..Len(last.calls) : last.calls[k].cls # c
       /\ {cm \in Addressed : ~Unresolvable(cm[1])} \subseteq Invoked
  /\ ResolveThrows => (~last.raised /\ last.response.status = 500)

\* ------------------------------------------------------------------------
\* Properties of the HEADERS and INJECT bindings
\* ------------------------------------------------------------------------

\* the declarations of one source on the handler that ran
DeclarationsOf(call, type) ==
  {d \in {ObjectValues(ParamDefinitions(call.cls, call.method))[i] :
            i \in 1..Len(ParamDefinitions(call.cls, call.method))} :
     d.type = type}

\* the value of the request header whose name equals k ignoring case
RequestHeader(k) ==
  LET named == {i \in 1..Len(last.request.headers.f) :
                  toLowerCase(last.request.headers.f[i][1]) = toLowerCase(k)}
  IN IF named = {} THEN Undefined
     ELSE last.request.headers.f[CHOOSE i \in named : \A j \in named : i <= j][2]

\* C16: in a web dispatch, a handler parameter declared with source HEADERS
\* and key k receives the value of the request header whose name equals k
\* ignoring case, and declared without a key receives the whole map of
\* request headers.
C16_HeadersFromRequest ==
  IsWeb =>
    \A n \in 1..Len(last.calls) :
      \A d \in DeclarationsOf(last.calls[n], "headers") :
        last.calls[n].args[d.index + 1] =
          IF d.key # NoKey THEN RequestHeader(d.key) ELSE last.request.headers

\* the @Inject declarations on the handler that ran
InjectDeclarations(cls, method) ==
  {ObjectValues(MethodInjectionTokens(cls, method))[i] :
     i \in 1..Len(MethodInjectionTokens(cls, method))}

\* the declared type of the parameter at a 0-based index
DeclaredType(cls, method, index) ==
  IF index + 1 <= Len(MethodParamTypes(cls, method))
    THEN MethodParamTypes(cls, method)[index + 1]
    ELSE UndefinedToken

\* C17: for a handler parameter declared INJECT, the binder resolves the
\* explicit token when one was given, and when none was given it resolves the
\* declared parameter type at that index and passes the resulting instance.
C17_InjectTokenOrDeclaredType ==
  (IsWeb \/ IsOn) =>
    \A n \in 1..Len(last.calls) :
      \A d \in InjectDeclarations(last.calls[n].cls, last.calls[n].method) :
        LET got == last.calls[n].args[d.index + 1]
            wanted == IF d.token # UndefinedToken THEN d.token
                      ELSE DeclaredType(last.calls[n].cls, last.calls[n].method, d.index)
        IN (wanted \in ClassNames /\ ~Unresolvable(wanted)) =>
             (got.t = "instance" /\ got.cls = wanted)

\* the handler a web request was routed to declares an @Inject whose token
\* cannot be resolved, on a controller that can
FailingInject ==
  /\ IsWeb
  /\ last.routeIdx # 0
  /\ ~Unresolvable(routes[last.routeIdx].controller)
  /\ \E d \in InjectDeclarations(routes[last.routeIdx].controller,
                                  routes[last.routeIdx].handler) :
       d.token # UndefinedToken /\ Unresolvable(d.token)

\* C18: when resolving the dependency of an INJECT parameter raises during
\* binding, that argument is undefined, the binder raises nothing, and the
\* handler is still invoked with the remaining arguments bound normally.
C18_FailedInjectIsUndefined ==
  /\ (IsWeb \/ IsOn) =>
       \A n \in 1..Len(last.calls) :
         \A d \in InjectDeclarations(last.calls[n].cls, last.calls[n].method) :
           (d.token # UndefinedToken /\ Unresolvable(d.token)) =>
             last.calls[n].args[d.index + 1] = Undefined
  /\ FailingInject =>
       /\ ~last.raised
       /\ Len(last.calls) = 1
       /\ last.calls[1].method = routes[last.routeIdx].handler
       /\ last.response.status # 500 \/ last.calls[1].threw
       /\ \A d \in DeclarationsOf(last.calls[1], "query") :
            last.calls[1].args[d.index + 1] =
              KeyOrWhole(GetProp(last.event, kParameter), d.key)
       /\ \A d \in InjectDeclarations(last.calls[1].cls, last.calls[1].method) :
            (d.token # UndefinedToken /\ ~Unresolvable(d.token)) =>
              last.calls[1].args[d.index + 1].cls = d.token

\* inj(@Inject(Mid) a, @Query() q, @Inject(Repo) c, ...) ran with a undefined,
\* q the query map and c a Repo, and the client got a 200
C18_Witness ==
  /\ FailingInject
  /\ last.calls[1].method = "inj"
  /\ last.calls[1].args[1] = Undefined
  /\ last.calls[1].args[2] = Obj(<<>>)
  /\ last.calls[1].args[3].cls = "Repo"
  /\ last.response.status = 200

\* ------------------------------------------------------------------------
\* Properties of wrapResponse
\* ------------------------------------------------------------------------

\* the value of the request's Accept header, "" when there is none
AcceptOf(request) ==
  IF In(kAccept, request.headers) /\ isString(GetProp(request.headers, kAccept))
    THEN GetProp(request.headers, kAccept).s[1]
    ELSE ""

\* C19: wrapResponse returns a JSON string for an Accept header of
\* google/json or google/plain, a text output tagged JSON for
\* application/json, a text output tagged text for text/plain, and for every
\* other Accept value, an absent one included, an HTML document wrapping the
\* serialized payload.
C19_OutputKindByAccept ==
  last.op = "wrapResponse" =>
    last.output.kind =
      CASE AcceptOf(last.request) \in {"google/json", "google/plain"} -> "string"
        [] AcceptOf(last.request) = "application/json" -> "TextOutput:JSON"
        [] AcceptOf(last.request) = "text/plain" -> "TextOutput:TEXT"
        [] OTHER -> "HtmlOutput"

\* the request path begins with the API prefix
UnderApi(request) ==
  /\ Len(request.pathname) >= 5
  /\ \A i \in 1..5 : request.pathname[i] = <<"/","a","p","i","/">>[i]

\* C20: wrapResponse serializes the full {headers, ok, status, statusText,
\* body} envelope when the request path begins with /api/, and only the body
\* for every other path.
C20_EnvelopeUnderApi ==
  last.op = "wrapResponse" =>
    IF UnderApi(last.request)
      THEN /\ DOMAIN last.output.payload.of =
                {"headers", "ok", "status", "statusText", "body"}
           /\ last.output.payload.of.ok = last.response.ok
           /\ last.output.payload.of.status = last.response.status
           /\ last.output.payload.of.statusText = last.response.statusText
           /\ last.output.payload.of.body = last.response.body
           /\ \A i \in 1..Len(last.response.headers.f) :
                GetProp(last.output.payload.of.headers, last.response.headers.f[i][1])
                  = last.response.headers.f[i][2]
      ELSE last.output.payload.of = last.response.body

\* a 404 under /api/ was serialized with its envelope
C20_Witness ==
  /\ last.op = "wrapResponse"
  /\ last.request.pathname = <<"/","a","p","i","/","i">>
  /\ AcceptOf(last.request) = "application/json"
  /\ last.output.payload.of.status = 404
  /\ last.output.payload.of.statusText = "NOT_FOUND"

\* a path that only resembles the prefix got the body alone
C20_WitnessBody ==
  /\ last.op = "wrapResponse"
  /\ last.request.pathname = <<"/","a","p","i","x","/","y">>
  /\ last.output.payload.of = Text(<<"h","i">>)

\* ------------------------------------------------------------------------
\* Properties of the response to a handler that returned
\* ------------------------------------------------------------------------

\* the matched handler ran and returned
HandlerReturned ==
  /\ IsWeb
  /\ last.routeIdx # 0
  /\ Len(last.calls) = 1
  /\ ~last.calls[1].threw

\* C21: when a matched handler returns normally, the response status is 200
\* if the request's effective verb is GET, HEAD or OPTIONS and 201 for every
\* other verb, and the response is marked ok with the handler's return value
\* as its body.
C21_StatusByVerb ==
  HandlerReturned =>
    /\ last.response.status =
         IF last.request.method \in {GET, HEAD, OPTIONS} THEN 200 ELSE 201
    /\ last.response.ok
    /\ last.response.body = ResultOf(last.calls[1])

\* a PUT reached through the method override of a doPost was answered 201
C21_Witness ==
  /\ HandlerReturned
  /\ last.op = "doPost"
  /\ last.request.method = PUT
  /\ last.calls[1].method = "replace"
  /\ last.response.status = 201

\* a HEAD reached through the method override of a doGet was answered 200
C21_WitnessHead ==
  /\ HandlerReturned
  /\ last.op = "doGet"
  /\ last.request.method = HEAD
  /\ last.calls[1].method = "probe"
  /\ last.response.status = 200

\* ------------------------------------------------------------------------
\* Properties of the App singleton
\* ------------------------------------------------------------------------

\* C22: every App.create and new App call in one process returns the same
\* App instance, and its registered controllers, providers and route table
\* stay those built from the configuration of the first call; the
\* configuration of a later call changes nothing.
C22_SingletonApp ==
  [][last'.op = "create" =>
       /\ last'.resolved = Num(instance)
       /\ instance' = instance
       /\ controllers' = controllers
       /\ providers' = providers
       /\ routes' = routes]_vars

\* a later call was given a configuration that would have built another
\* route table, and the table of the first call is still in place
C22_Witness ==
  /\ last.op = "create"
  /\ ops > 0
  /\ last.resolved = Num(1)
  /\ routes # explore(RegisterControllers(last.args[1].controllers, 1, <<>>))
  /\ Len(routes) > 0

\* ------------------------------------------------------------------------
\* Properties of a JSON body that does not parse
\* ------------------------------------------------------------------------

\* the last POST declared its body application/json and the text is not JSON
PostedBadJson ==
  /\ last.op = "doPost"
  /\ In(kPostData, last.event)
  /\ PostType = Text(<<"application/json">>)
  /\ isString(PostContents)
  /\ ~JSONParse(PostContents.s).ok

\* C23: in App.do a body declared application/json that fails to parse is
\* passed on as the raw text and the request is processed normally: the
\* matched handler is invoked with it and the parse failure causes no 500.
C23_BadJsonStaysText ==
  (PostedBadJson /\ last.routeIdx # 0
     /\ ~Unresolvable(routes[last.routeIdx].controller)) =>
    /\ ~last.raised
    /\ Len(last.calls) = 1
    /\ last.calls[1].method = routes[last.routeIdx].handler
    /\ \A d \in BodyDeclarations(last.calls[1]) :
         last.calls[1].args[d.index + 1] = PostContents
    /\ \E n \in 1..Len(last.console) : last.console[n][1] = "warn"
    /\ last.response.status # 500 \/ last.calls[1].threw

\* "oops" posted to /u as application/json reached create(body, name) as
\* the text, with a warning, and the client got a 201
C23_Witness ==
  /\ PostedBadJson
  /\ PostContents = Text(<<"oops">>)
  /\ Len(last.calls) = 1
  /\ last.calls[1].method = "create"
  /\ last.calls[1].args = << Text(<<"oops">>), Text(<<"oops">>) >>
  /\ \E n \in 1..Len(last.console) : last.console[n] = <<"warn", "Failed to parse JSON">>
  /\ last.response.status = 201

\* ------------------------------------------------------------------------
\* Properties of resolve on a dependency cycle
\* ------------------------------------------------------------------------

\* the classes the constructor of c depends on
DepsOf(c) ==
  {TokenAt(c, i) : i \in 1..Len(DesignParamTypes(c))} \cap ClassNames

\* the classes reached from the classes in S over at most n dependency edges
RECURSIVE ReachedFrom(_, _)
ReachedFrom(S, n) ==
  IF n = 0 THEN S
  ELSE ReachedFrom(S \cup UNION {DepsOf(c) : c \in S}, n - 1)

Dependencies(c) == ReachedFrom(DepsOf(c), Cardinality(ClassNames))

\* the constructor dependencies below c contain a cycle
Cyclic(c) == \E d \in Dependencies(c) \cup {c} : d \in Dependencies(d)

\* resolving c walks into the cycle: no dependency is missing, and the
\* loop-based resolve finds every dependency registered
EntersCycle(c) ==
  /\ c \in ClassNames
  /\ Cyclic(c)
  /\ ~ChainBroken(c, Cardinality(ClassNames))
  /\ ver = "loop" =>
       \A d \in Dependencies(c) : HasKey(providers, d) \/ HasKey(controllers, d)

\* C24: resolve on a class whose constructor dependencies form a cycle
\* never returns an instance: it recurses past every stack depth it is given,
\* the resolver detects no cycle and reports no error of its own, and the
\* only end the recursion has is the engine's stack exhaustion (RangeError);
\* no class on the path is built or cached.
C24_CycleExhaustsStack ==
  (last.op = "resolve" /\ EntersCycle(last.target)) =>
    /\ last.raised
    /\ last.err.name = "RangeError"
    /\ last.resolved = Undefined
    /\ ~HasInstance(last.target)
    /\ ~ConstructedNow(last.target)

\* resolve(Ping) went round Ping -> Pong -> Ping until the stack ran out
C24_Witness ==
  /\ last.op = "resolve"
  /\ last.target = "Ping"
  /\ EntersCycle("Ping")
  /\ last.raised
  /\ last.err.name = "RangeError"

\* ------------------------------------------------------------------------
\* Properties of the route table builder
\* ------------------------------------------------------------------------

\* the controllers of a list that the constructor registers
Registered(list) == {list[i] : i \in {j \in 1..Len(list) : isController(list[j])}}

\* own methods of a class that carry both a verb and a path
RoutedMethods(c) ==
  {i \in 1..Len(ClassDef(c).methods) :
     /\ ClassDef(c).methods[i].http.verb # <<>>
     /\ ClassDef(c).methods[i].http.path # <<>>}

\* /basePath/methodPath with empty segments dropped, then percent-decoded
RouteText(c, i) ==
  LET base == IF ControllerBasePath(c) = <<>> THEN <<"/">> ELSE ControllerBasePath(c)
      segments == Segments(<<"/">> \o base \o <<"/">> \o ClassDef(c).methods[i].http.path)
  IN IF segments = <<>> THEN <<"/">> ELSE decodeURI(JoinSlash(segments)).s

RecordsOf(recs, c, name) ==
  {k \in 1..Len(recs) : recs[k].controller = c /\ recs[k].handler = name}

\* C25: explore emits exactly one record for every own method with verb and
\* path of every registered controller of type "http", with the verb of the
\* method and the decoded normalized path under the base path ("/" when the
\* controller has none), and no record for any other controller or method.
C25_OneRecordPerRoutedMethod ==
  last.op = "explore" =>
    /\ \A c \in Registered(last.args[1]) :
         ControllerType(c) = "http" =>
           \A i \in RoutedMethods(c) :
             /\ Cardinality(RecordsOf(last.resolved, c, ClassDef(c).methods[i].name)) = 1
             /\ \A k \in RecordsOf(last.resolved, c, ClassDef(c).methods[i].name) :
                  /\ last.resolved[k].method = ClassDef(c).methods[i].http.verb
                  /\ last.resolved[k].path = RouteText(c, i)
    /\ \A k \in 1..Len(last.resolved) :
         /\ last.resolved[k].controller \in Registered(last.args[1])
         /\ ControllerType(last.resolved[k].controller) = "http"
         /\ \E i \in RoutedMethods(last.resolved[k].controller) :
              ClassDef(last.resolved[k].controller).methods[i].name = last.resolved[k].handler

\* an inherited base path, a defaulted one and a sheet controller with a
\* verb-decorated method were explored together
C25_Witness ==
  /\ last.op = "explore"
  /\ last.args[1] = <<"HeirHttp", "SheetWeb", "ChildHttp", "BaseHttp">>
  /\ Len(last.resolved) = 5
  /\ last.resolved[1].path = <<"/","b","a","s","e","/","m","o","r","e">>
  /\ last.resolved[3].path = <<"/","a"," ","b">>

\* ------------------------------------------------------------------------
\* Properties of parameter declarations
\* ------------------------------------------------------------------------

\* the positions of the writes made on one handler for one parameter index
WritesAt(writes, propertyKey, index) ==
  {i \in 1..Len(writes) : writes[i].propertyKey = propertyKey /\ writes[i].index = index}

\* the declarations stored for one handler with one parameter index
StoredAt(store, propertyKey, index) ==
  IF propertyKey \notin DOMAIN store THEN {}
  ELSE {i \in 1..Len(store[propertyKey]) : store[propertyKey][i][2].index = index}

LastWrite(writes, at) == writes[CHOOSE i \in at : \A j \in at : j <= i]

\* C26: after the parameter decorators ran, a handler holds at most one
\* declaration for each parameter index, the last one written for that index
\* on that handler, and nothing for an index never written on it.
C26_LastDeclarationPerIndex ==
  last.op = "decorate" =>
    \A propertyKey \in {"methodA", "methodB"}, index \in {0, 1} :
      LET at == WritesAt(last.args[1], propertyKey, index)
          stored == StoredAt(last.resolved, propertyKey, index)
      IN IF at = {} THEN stored = {}
         ELSE /\ Cardinality(stored) = 1
              /\ \A i \in stored :
                   /\ last.resolved[propertyKey][i][2].type = LastWrite(last.args[1], at).type
                   /\ last.resolved[propertyKey][i][2].key = LastWrite(last.args[1], at).key

\* ------------------------------------------------------------------------
\* Properties of createRequest
\* ------------------------------------------------------------------------

\* event.parameter.method
MethodOverride == GetProp(GetProp(last.event, kParameter), kMethod)

\* C27 as stated: the verb is the override whenever the event carries one,
\* and the verb of the entry function only when it carries none.
C27_OverrideWheneverPresent ==
  last.op = "createRequest" =>
    IF isString(MethodOverride)
      THEN last.request.method = toLowerCase(MethodOverride.s)
      ELSE last.request.method = last.args[1]

\* C27: the verb is the lower-cased override when that names one of the seven
\* request methods, and the verb of the entry function in every other case,
\* an override that names no request method included.
C27_KnownOverrideElseEntry ==
  last.op = "createRequest" =>
    /\ last.request.method \in RequestMethod
    /\ \A verb \in RequestMethod :
         (isString(MethodOverride) /\ toLowerCase(MethodOverride.s) = verb)
           => last.request.method = verb
    /\ (\A verb \in RequestMethod :
          ~(isString(MethodOverride) /\ toLowerCase(MethodOverride.s) = verb))
         => last.request.method = last.args[1]

\* doPost received an override that names no request method
C27_Witness ==
  /\ last.op = "createRequest"
  /\ last.args[1] = POST
  /\ MethodOverride = Text(<<"b","o","g","u","s">>)
  /\ last.request.method = POST

\* event.postData.contents, Undefined without postData
PostedContents == GetProp(GetProp(last.event, kPostData), kContents)

\* C28: the request's body is the event's raw contents when the effective verb
\* is post, put, patch or delete, and null for get, head and options whatever
\* the event carries.
C28_BodyOnlyForWriteVerbs ==
  last.op = "createRequest" =>
    /\ last.request.method \in {GET, HEAD, OPTIONS} => last.request.body = Null
    /\ last.request.body # Null =>
         /\ last.request.method \in {POST, PUT, PATCH, DELETE}
         /\ last.request.body = PostedContents
    /\ (last.request.method \in {POST, PUT, PATCH, DELETE} /\ In(kPostData, last.event))
         => last.request.body = PostedContents

\* doPost with posted contents and an override to head
C28_Witness ==
  /\ last.op = "createRequest"
  /\ last.args[1] = POST
  /\ last.request.method = HEAD
  /\ isString(PostedContents)
  /\ last.request.body = Null

\* ------------------------------------------------------------------------
\* Properties of the argument list
\* ------------------------------------------------------------------------

\* every declaration of a handler: data sources and injections
Declared(c, name) ==
  {ParamDefinitions(c, name)[i][2] : i \in 1..Len(ParamDefinitions(c, name))}
  \cup {MethodInjectionTokens(c, name)[i][2] : i \in 1..Len(MethodInjectionTokens(c, name))}

\* the value the binder computes for one declaration
BoundFor(d, ctx, c, name) ==
  BindOne(BinderState, d, ctx, MethodParamTypes(c, name), "map").val

\* C29: the argument list of buildMethodParams has the value bound for each
\* declaration at the position of its index, undefined at every position
\* without a declaration, and ends at the highest declared index.
C29_ArgumentsByIndex ==
  last.op = "buildMethodParams" =>
    LET declared == Declared("Gappy", last.args[1])
    IN /\ \A d \in declared :
            /\ d.index + 1 <= Len(last.resolved)
            /\ last.resolved[d.index + 1] = BoundFor(d, last.args[2], "Gappy", last.args[1])
       /\ \A p \in 1..Len(last.resolved) :
            /\ \E d \in declared : d.index + 1 >= p
            /\ (\A d \in declared : d.index + 1 # p) => last.resolved[p] = Undefined

\* holes(a, @Query("q") q, c, d, @Event() e) was bound
C29_Witness ==
  /\ last.op = "buildMethodParams"
  /\ last.args[1] = "holes"
  /\ last.resolved = <<Undefined, Text(<<"z">>), Undefined, Undefined, last.args[2].event>>

\* ------------------------------------------------------------------------
\* Properties of the HTTP method decorators
\* ------------------------------------------------------------------------

\* the verb a decorator is named after
NamedVerb(decorator) ==
  CASE decorator \in {"Get", "GetMapping"} -> <<"g","e","t">>
    [] decorator \in {"Post", "PostMapping"} -> <<"p","o","s","t">>
    [] decorator \in {"Put", "PutMapping"} -> <<"p","u","t">>
    [] decorator \in {"Delete", "DeleteMapping"} -> <<"d","e","l","e","t","e">>
    [] decorator \in {"Patch", "PatchMapping"} -> <<"p","a","t","c","h">>
    [] decorator \in {"Options", "OptionsMapping"} -> <<"o","p","t","i","o","n","s">>
    [] decorator \in {"Head", "HeadMapping"} -> <<"h","e","a","d">>

\* C30: a method decorator stores the verb it is named after and the given
\* path on the decorated method, "/" for an undefined or empty path and the
\* path as written otherwise, and nothing on the other methods of the class.
C30_VerbAndPathOnDecoratedMethod ==
  last.op = "httpDecorator" =>
    /\ last.resolved[last.args[3]].verb = NamedVerb(last.args[1])
    /\ last.resolved[last.args[3]].path =
         IF last.args[2] = Undefined \/ last.args[2] = Text(<<>>)
           THEN <<"/">> ELSE last.args[2].s
    /\ \A k \in MethodKeys \ {last.args[3]} :
         last.resolved[k].verb = <<>> /\ last.resolved[k].path = <<>>

\* @PatchMapping("") on one of two methods
C30_Witness ==
  /\ last.op = "httpDecorator"
  /\ last.args = <<"PatchMapping", Text(<<>>), "second">>
  /\ last.resolved["second"] = [verb |-> PATCH, path |-> <<"/">>]
  /\ last.resolved["first"] = NoHttp

\* ------------------------------------------------------------------------
\* Properties of the calls made in one event dispatch
\* ------------------------------------------------------------------------

\* the positions in the call list at which a handler was invoked
CallsOf(cm) ==
  {k \in 1..Len(last.calls) : last.calls[k].cls = cm[1] /\ last.calls[k].method = cm[2]}

\* a method a controller class declares itself and also inherits
Overrides(cm) ==
  /\ HasOwnMethod(cm[1], cm[2])
  /\ \E i \in 2..Len(ProtoChain(cm[1])) : HasOwnMethod(ProtoChain(cm[1])[i], cm[2])

\* C31: in a dispatch that App.on completes, every handler the event is
\* addressed to (event kind declared, filter passed) is invoked exactly once,
\* a handler that overrides an inherited method included.
C31_InvokedExactlyOnce ==
  (IsOn /\ ~last.raised) =>
    \A cm \in Addressed : Cardinality(CallsOf(cm)) = 1

\* the handlers called, in the order of the calls
CallOrder == [k \in 1..Len(last.calls) |-> <<last.calls[k].cls, last.calls[k].method>>]

\* the methods of a class in enumeration order, then those of its parents
RECURSIVE OwnThenInherited(_)
OwnThenInherited(c) ==
  IF c = "Object" THEN <<>>
  ELSE [i \in 1..Len(ClassDef(c).methods) |-> <<ClassDef(c).methods[i].name>>]
       \o OwnThenInherited(ClassDef(c).parent)

\* every method of every registered controller from position i on, in
\* registration order
RECURSIVE Enumeration(_)
Enumeration(i) ==
  IF i > Len(controllers) THEN <<>>
  ELSE [k \in 1..Len(OwnThenInherited(controllers[i][1])) |->
          <<controllers[i][1], OwnThenInherited(controllers[i][1])[k][1]>>]
       \o Enumeration(i + 1)

\* a[i..] can be read off b[j..] from left to right
RECURSIVE Embeds(_, _, _, _)
Embeds(a, i, b, j) ==
  IF i > Len(a) THEN TRUE
  ELSE IF j > Len(b) THEN FALSE
  ELSE IF a[i] = b[j] THEN Embeds(a, i + 1, b, j + 1)
  ELSE Embeds(a, i, b, j + 1)

\* C32: the handlers App.on calls are called in the order in which the
\* controllers were registered and, within a controller, in the order of its
\* own methods followed by the methods of its parent classes.
C32_CallsInEnumerationOrder ==
  IsOn => Embeds(CallOrder, 1, Enumeration(1), 1)

\* an open event reached a handler of SheetA, then SheetB's own handler and
\* then the one SheetB inherits
C32_Witness ==
  /\ last.op = "onOpen"
  /\ CallOrder = << <<"SheetA", "onOpenA">>, <<"SheetA", "failing">>,
                    <<"SheetB", "late">>, <<"SheetB", "baseOpen">> >>

\* ------------------------------------------------------------------------
\* Properties of the values bound in a web dispatch
\* ------------------------------------------------------------------------

\* the position of the template segment that declares the name
CaptureAt(template, name) ==
  CHOOSE i \in 1..Len(Segments(template)) :
    Wrapped(Segments(template)[i]) /\ NameOf(Segments(template)[i]) = name

\* C33: a handler parameter declared as path parameter k receives the
\* segment that the decoded path, the one the route was matched against,
\* has at the position of {k} in the route's template.
C33_CapturesFromMatchedPath ==
  (IsWeb /\ last.routeIdx # 0) =>
    \A k \in 1..Len(last.calls) :
      \A d \in DeclarationsOf(last.calls[k], "param") :
        d.key # NoKey =>
          last.calls[k].args[d.index + 1] =
            Text(Segments(Decoded.s)[CaptureAt(routes[last.routeIdx].path, d.key)])

\* C34: a BODY parameter of a handler reached with the verb get, head or
\* options, for which the request's body is null, receives no body content:
\* it is bound to the request's null body.
C34_NoBodyForReadVerbs ==
  (IsWeb /\ last.request.method \in {GET, HEAD, OPTIONS}) =>
    /\ last.request.body = Null
    /\ \A k \in 1..Len(last.calls) :
         \A d \in BodyDeclarations(last.calls[k]) :
           last.calls[k].args[d.index + 1] = last.request.body

\* ------------------------------------------------------------------------
\* Properties of the instance caches
\* ------------------------------------------------------------------------

\* C35: when App.do answers 404, nothing was constructed for the request and
\* the controller cache and the provider cache are as they were before it.
C35_NotFoundBuildsNothing ==
  (IsWeb /\ last.response.status = 404) =>
    /\ constructed = last.before.constructed
    /\ controllers = last.before.controllers
    /\ providers = last.before.providers

\* a 404 answered by an App that holds instances from an earlier call and
\* has routes
C35_Witness ==
  /\ IsWeb
  /\ last.response.status = 404
  /\ constructed # <<>>
  /\ routes # <<>>
  /\ \E i \in 1..Len(controllers) : controllers[i][2] # Null

\* C36: a resolve call that raises leaves the controller cache and the
\* provider cache as they were before the call.
C36_FailedResolveCachesNothing ==
  (last.op = "resolve" /\ last.raised) =>
    /\ controllers = last.before.controllers
    /\ providers = last.before.providers

\* the positions of the construction log written by the last call
BuiltNow == (Len(last.before.constructed) + 1)..Len(constructed)

\* C37: resolve on a class whose constructor dependencies contain no cycle
\* comes to an end on its own, with an instance of the class or with an
\* error of the resolver, never by exhausting the stack; when it returns,
\* every class built by the call was built after each of its constructor
\* dependencies.
C37_AcyclicResolveEnds ==
  (last.op = "resolve" /\ ~Cyclic(last.target)) =>
    /\ last.err.name # "RangeError"
    /\ last.raised => last.resolved = Undefined
    /\ ~last.raised =>
         /\ last.resolved.t = "instance"
         /\ last.resolved.cls = last.target
         /\ \A i \in BuiltNow :
              \A d \in DepsOf(constructed[i]) :
                \E j \in 1..(i - 1) : constructed[j] = d

\* resolve(Users) built Repo, then Svc, then Plain, then Users
C37_Witness ==
  /\ last.op = "resolve"
  /\ last.target = "Users"
  /\ ~last.raised
  /\ last.before.constructed = <<>>
  /\ constructed = <<"Repo", "Svc", "Plain", "Users">>

====
